---------------------------- MODULE Spec2Model ----------------------------
(***************************************************************************)
(* A state-machine model of the GPU resource layer of oxyde                 *)
(* (src/src/wgpu_utils): the bind-group layout / bind-group builders, the   *)
(* ping-pong buffer and texture, the uniform buffer, the staging buffer     *)
(* wrapper, and the device pool with its surfaces; and of the event handler *)
(* of the application loop (src/src/app.rs).  Every subsystem has its own   *)
(* variables and its own specification; a subsystem's specification leaves  *)
(* the variables of the other subsystems at their initial value.            *)
(*                                                                         *)
(* An Option<T> is modelled as a sequence of length 0 (None) or 1 (Some).   *)
(* A panic (a failed assert!, an unwrap of None, a wgpu validation error)    *)
(* ends the run of the subsystem: the panic site is recorded and no action  *)
(* of the subsystem is enabled afterwards.                                  *)
(***************************************************************************)
EXTENDS Integers, Sequences, FiniteSets, TLC

VARIABLES
    \* ---- binding_builder.rs
    bb_pc,            \* which object the caller holds: "BindGroupLayoutBuilder",
                      \* "BindGroupLayoutWithDesc", "BindGroupBuilder" or
                      \* "BindGroup" (the builder chain has ended with create)
    layout_builder,   \* BindGroupLayoutBuilder { entries, next_binding_index }
    layout_with_desc, \* BindGroupLayoutWithDesc { layout, entries }
    group_builder,    \* BindGroupBuilder { entries } (layout_with_desc by reference)
    dev_layouts,      \* descriptors passed to device.create_bind_group_layout
    dev_bind_groups,  \* descriptors passed to device.create_bind_group
    bb_panic,         \* "none", or the site of the panic that ended the run
    bb_calls          \* the calls made so far, in call order

VARIABLES
    \* ---- ping_pong_buffer.rs, ping_pong_texture.rs
    ping_pong_buffer,   \* Option<PingPongBuffer>: None before construction
    ping_pong_texture,  \* Option<PingPongTexture>: None before construction
    ppt_bind_groups,    \* Option of the pair returned by create_binding_group
    pp_device,          \* what the device was asked to create, per kind, in order
    pp_panic,           \* "none", or the site of the panic that ended the run
    ppb_hist,           \* PingPongBuffer: what the accessors returned before each swap_state
    ppt_hist            \* PingPongTexture: what the accessors returned before each toogle_state

VARIABLES
    \* ---- uniform_buffer.rs
    uniform_buffer,   \* Option<UniformBuffer<Content>>: { buffer, previous_content }
    ub_device,        \* the device's buffers: descriptor and contents, by handle
    ub_queue,         \* the queue.write_buffer calls issued, in order
    ub_panic,         \* "none", or the site of the panic that ended the run
    ub_calls          \* the content given to each update_content call, in order

VARIABLES
    \* ---- buffers.rs: StagingBufferWrapper<T, READ_OR_WRITE>
    staging,          \* Option<StagingBufferWrapper>: { values, staging_buffer }
                      \* and the const generic READ_OR_WRITE of its type
    sb_buffers,       \* the device's buffers by handle: descriptor, contents, map state
    sb_queue,         \* queue.write_buffer calls not yet submitted
    sb_encoder,       \* copy commands recorded in the command encoder
    sb_panic,         \* "none", or the site of the panic that ended the run
    sb_last           \* the last call made on the wrapper and its argument

VARIABLES
    \* ---- render_handles.rs
    devices,          \* RenderInstance.devices: Vec<DeviceHandle>
    rh_surfaces,      \* the native surfaces the instance has created, by id:
                      \* the window and what surface.configure last set
    surface_handles,  \* the SurfaceHandles returned to the caller, in order
    rh_last,          \* the last call that returned: its arguments, its result and
                      \* the calls it made on the surface, the instance and the adapter
    rh_pending        \* Option of the device or create_render_surface call that
                      \* is suspended at an .await: its arguments, the await it
                      \* is at, and what the environment has answered so far

VARIABLES
    \* ---- app.rs: run_loop
    app_config,       \* app_state.config: the width and height of the surface configuration
    app_exit,         \* whether elwt.exit() has been called
    app_hist          \* the events handled so far, in order: the event, what
                      \* get_current_texture answered, the calls run_loop made
                      \* in order, what it returned, and app_exit afterwards

bb_vars == <<bb_pc, layout_builder, layout_with_desc, group_builder,
             dev_layouts, dev_bind_groups, bb_panic, bb_calls>>

pp_vars == <<ping_pong_buffer, ping_pong_texture, ppt_bind_groups, pp_device,
             pp_panic, ppb_hist, ppt_hist>>

ub_vars == <<uniform_buffer, ub_device, ub_queue, ub_panic, ub_calls>>

sb_vars == <<staging, sb_buffers, sb_queue, sb_encoder, sb_panic, sb_last>>

rh_vars == <<devices, rh_surfaces, surface_handles, rh_last, rh_pending>>

app_vars == <<app_config, app_exit, app_hist>>

vars == <<bb_vars, pp_vars, ub_vars, sb_vars, rh_vars, app_vars>>

----------------------------------------------------------------------------
(* Bounds of the model.                                                     *)

\* longest entry list a layout builder is driven to
MaxEntries == 3
\* explicit binding indices given to add_raw_binding: 0..MaxRawIndex
MaxRawIndex == 1
\* swap_state / toogle_state calls made on one ping-pong resource
MaxSwaps == 3
\* update_content calls made on one uniform buffer
MaxUpdates == 3
\* longest CPU mirror of a staging buffer wrapper, in elements
MaxLen == 2
\* copy commands recorded in one command encoder before it is submitted
MaxEncoded == 2
\* most native surfaces the instance creates
MaxSurfaces == 2
\* events delivered to run_loop in one run
MaxEvents == 2

\* Binding indices are u32.  Every index of the model is at most
\* MaxRawIndex + MaxEntries, far below u32::MAX, so `binding + 1` never
\* overflows here and is modelled by integer addition.
RawIndices == 0..MaxRawIndex
Visibilities == {"COMPUTE", "FRAGMENT"}
BindingTypes == {"Buffer"}
Resources == {"res_a", "res_b"}
Labels == {<<>>, <<"lbl">>}

None == <<>>
Some(x) == <<x>>
UnwrapOr(opt, default) == IF opt = <<>> THEN default ELSE opt[1]

----------------------------------------------------------------------------
(* binding_builder.rs: the builders as pure functions of the builder value. *)

\* wgpu::BindGroupLayoutEntry { binding, visibility, ty, count: None }
LayoutEntry(binding, visibility, ty) ==
    [binding |-> binding, visibility |-> visibility, ty |-> ty, count |-> None]

\* BindGroupLayoutBuilder::new() = Self::default()
BindGroupLayoutBuilder_new == [entries |-> <<>>, next_binding_index |-> 0]

\* add_raw_binding that pushes the entry and leaves the counter where it was
add_raw_binding_stale_counter(self, binding) ==
    [next_binding_index |-> self.next_binding_index,
     entries |-> Append(self.entries, binding)]

\* BindGroupLayoutBuilder::add_raw_binding
add_raw_binding(self, binding) ==
    [next_binding_index |-> binding.binding + 1,
     entries |-> Append(self.entries, binding)]

\* BindGroupLayoutBuilder::add_binding: the entry it hands to add_raw_binding
add_binding_entry(self, visibility, ty) ==
    LayoutEntry(self.next_binding_index, visibility, ty)

\* BindGroupLayoutBuilder::add_binding
add_binding(self, visibility, ty) ==
    add_raw_binding(self, add_binding_entry(self, visibility, ty))

\* the descriptor BindGroupLayoutBuilder::create passes to the device
LayoutDescriptor(self, label) ==
    [entries |-> self.entries,
     label   |-> Some("BindGroupLayout: " \o UnwrapOr(label, "unknown"))]

\* BindGroupLayoutBuilder::create: the BindGroupLayoutWithDesc returned; `id`
\* is the handle of the compiled layout
BindGroupLayoutBuilder_create(self, id) ==
    [layout |-> id, entries |-> self.entries]

\* BindGroupBuilder::new
BindGroupBuilder_new == [entries |-> <<>>]

\* the assert! of BindGroupBuilder::resource
ResourceAssert(self, lwd) == Len(self.entries) < Len(lwd.entries)

\* resource that numbers the entry by its position instead of reading the layout
resource_positional(self, lwd, res) ==
    [entries |-> Append(self.entries,
                        [binding |-> Len(self.entries), resource |-> res])]

\* BindGroupBuilder::resource, past its assert!
resource(self, lwd, res) ==
    [entries |-> Append(self.entries,
                        [binding  |-> lwd.entries[Len(self.entries) + 1].binding,
                         resource |-> res])]

\* an assert that only rejects too many resources
CreateAssert_at_most(self, lwd) == Len(self.entries) <= Len(lwd.entries)

\* the assert_eq! of BindGroupBuilder::create
CreateAssert(self, lwd) == Len(self.entries) = Len(lwd.entries)

\* the descriptor BindGroupBuilder::create passes to the device
BindGroupDescriptor(self, lwd, label) ==
    [layout  |-> lwd.layout,
     entries |-> self.entries,
     label   |-> Some("BindGroup: " \o UnwrapOr(label, "unknown"))]

----------------------------------------------------------------------------
(* binding_builder.rs: the calls a caller makes, as actions.                *)

\* the panics of the two asserts
ResourcePanic == "BindGroupBuilder::resource: assertion failed"
CreatePanic == "BindGroupBuilder::create: assertion failed"

BBInit ==
    /\ bb_pc = "BindGroupLayoutBuilder"
    /\ layout_builder = BindGroupLayoutBuilder_new
    /\ layout_with_desc = [layout |-> 0, entries |-> <<>>]
    /\ group_builder = BindGroupBuilder_new
    /\ dev_layouts = <<>>
    /\ dev_bind_groups = <<>>
    /\ bb_panic = "none"
    /\ bb_calls = <<>>

\* builder.add_raw_binding(binding)
AddRawBinding ==
    /\ bb_pc = "BindGroupLayoutBuilder" /\ bb_panic = "none"
    /\ Len(layout_builder.entries) < MaxEntries
    /\ \E b \in RawIndices, v \in Visibilities, t \in BindingTypes :
         LET binding == LayoutEntry(b, v, t) IN
         /\ bb_calls' = Append(bb_calls, [op |-> "add_raw_binding", arg |-> binding])
         /\ layout_builder' = add_raw_binding(layout_builder, binding)
    /\ UNCHANGED <<bb_pc, layout_with_desc, group_builder, dev_layouts, dev_bind_groups,
                   bb_panic>>

\* builder.add_binding(visibility, ty)
AddBinding ==
    /\ bb_pc = "BindGroupLayoutBuilder" /\ bb_panic = "none"
    /\ Len(layout_builder.entries) < MaxEntries
    /\ \E v \in Visibilities, t \in BindingTypes :
         /\ bb_calls' = Append(bb_calls,
                [op |-> "add_binding", arg |-> LayoutEntry(0, v, t)])
         /\ layout_builder' = add_binding(layout_builder, v, t)
    /\ UNCHANGED <<bb_pc, layout_with_desc, group_builder, dev_layouts, dev_bind_groups,
                   bb_panic>>

\* builder.create(device, label)
LayoutCreate ==
    /\ bb_pc = "BindGroupLayoutBuilder" /\ bb_panic = "none"
    /\ \E label \in Labels :
         dev_layouts' = Append(dev_layouts, LayoutDescriptor(layout_builder, label))
    /\ layout_with_desc' =
         BindGroupLayoutBuilder_create(layout_builder, Len(dev_layouts) + 1)
    /\ bb_pc' = "BindGroupLayoutWithDesc"
    /\ UNCHANGED <<layout_builder, group_builder, dev_bind_groups, bb_panic, bb_calls>>

\* BindGroupBuilder::new(&layout_with_desc)
GroupNew ==
    /\ bb_pc = "BindGroupLayoutWithDesc" /\ bb_panic = "none"
    /\ group_builder' = BindGroupBuilder_new
    /\ bb_pc' = "BindGroupBuilder"
    /\ UNCHANGED <<layout_builder, layout_with_desc, dev_layouts, dev_bind_groups,
                   bb_panic, bb_calls>>

\* group_builder.resource(res)
Resource ==
    /\ bb_pc = "BindGroupBuilder" /\ bb_panic = "none"
    /\ \E res \in Resources :
         /\ bb_calls' = Append(bb_calls, [op |-> "resource", arg |-> res])
         /\ IF ResourceAssert(group_builder, layout_with_desc)
              THEN /\ group_builder' = resource(group_builder, layout_with_desc, res)
                   /\ UNCHANGED bb_panic
              ELSE /\ bb_panic' = ResourcePanic
                   /\ UNCHANGED group_builder
    /\ UNCHANGED <<bb_pc, layout_builder, layout_with_desc, dev_layouts, dev_bind_groups>>

\* group_builder.create(device, label)
GroupCreate ==
    /\ bb_pc = "BindGroupBuilder" /\ bb_panic = "none"
    /\ \E label \in Labels :
         /\ bb_calls' = Append(bb_calls, [op |-> "create", arg |-> label])
         /\ IF CreateAssert(group_builder, layout_with_desc)
              THEN /\ dev_bind_groups' = Append(dev_bind_groups,
                          BindGroupDescriptor(group_builder, layout_with_desc, label))
                   /\ bb_pc' = "BindGroup"
                   /\ UNCHANGED bb_panic
              ELSE /\ bb_panic' = CreatePanic
                   /\ UNCHANGED <<dev_bind_groups, bb_pc>>
    /\ UNCHANGED <<layout_builder, layout_with_desc, group_builder, dev_layouts>>

BBNext ==
    \/ AddRawBinding
    \/ AddBinding
    \/ LayoutCreate
    \/ GroupNew
    \/ Resource
    \/ GroupCreate

----------------------------------------------------------------------------
(* ping_pong_buffer.rs                                                      *)

\* descriptor.size / descriptor.contents.len() values driven
BufferSizes == {0, 16}

\* wgpu::BufferSize::new(size): NonZeroU64::new, None for 0
BufferSize_new(size) == IF size = 0 THEN None ELSE Some(size)

\* wgpu::BindingType::Buffer { ty: Storage { read_only }, has_dynamic_offset: false,
\*                             min_binding_size: BufferSize::new(size) }
StorageBufferBinding(read_only, size) ==
    [kind |-> "Buffer", storage |-> TRUE, read_only |-> read_only,
     has_dynamic_offset |-> FALSE, min_binding_size |-> BufferSize_new(size)]

\* buffer.as_entire_binding()
as_entire_binding(buffer) == [buffer |-> buffer, offset |-> 0, size |-> None]

\* device.create_*: the handle of a new object is its position in the device's list
NewHandle(list) == Len(list) + 1

\* PingPongBuffer::create_layout_and_bind_group: the descriptors handed to the
\* device, in call order, and the handles returned.  `dev` is the device before
\* the call; ping_buffer and pong_buffer are buffer handles.
create_layout_and_bind_group(dev, ping_buffer, pong_buffer, single_buffer_visibility, ping_pong_buffer_visibility, label_opt, size) ==
    LET label == UnwrapOr(label_opt, "unknown")
        pp_builder ==
            add_binding(
                add_binding(BindGroupLayoutBuilder_new, ping_pong_buffer_visibility,
                            StorageBufferBinding(TRUE, size)),
                ping_pong_buffer_visibility, StorageBufferBinding(FALSE, size))
        pp_label == Some(label \o " ping_pong_bind_group_layout")
        pp_lwd == BindGroupLayoutBuilder_create(pp_builder, NewHandle(dev.layouts))
        pp_b1 == resource(BindGroupBuilder_new, pp_lwd, as_entire_binding(ping_buffer))
        pp_b2 == resource(pp_b1, pp_lwd, as_entire_binding(pong_buffer))
        pg_b1 == resource(BindGroupBuilder_new, pp_lwd, as_entire_binding(pong_buffer))
        pg_b2 == resource(pg_b1, pp_lwd, as_entire_binding(ping_buffer))
        sb_builder ==
            add_binding(BindGroupLayoutBuilder_new, single_buffer_visibility,
                        StorageBufferBinding(TRUE, size))
        sb_label == Some(label \o " buffer_bind_group_layout")
        sb_lwd == BindGroupLayoutBuilder_create(sb_builder, NewHandle(dev.layouts) + 1)
        ping_b == resource(BindGroupBuilder_new, sb_lwd, as_entire_binding(ping_buffer))
        pong_b == resource(BindGroupBuilder_new, sb_lwd, as_entire_binding(pong_buffer))
        first == NewHandle(dev.bind_groups)
    IN  [asserts |->
            /\ ResourceAssert(BindGroupBuilder_new, pp_lwd) /\ ResourceAssert(pp_b1, pp_lwd)
            /\ CreateAssert(pp_b2, pp_lwd)
            /\ ResourceAssert(pg_b1, pp_lwd) /\ CreateAssert(pg_b2, pp_lwd)
            /\ ResourceAssert(BindGroupBuilder_new, sb_lwd)
            /\ CreateAssert(ping_b, sb_lwd) /\ CreateAssert(pong_b, sb_lwd),
         layouts |-> <<LayoutDescriptor(pp_builder, pp_label),
                       LayoutDescriptor(sb_builder, sb_label)>>,
         bind_groups |->
            <<BindGroupDescriptor(pp_b2, pp_lwd, Some(label \o " ping_pong_bind_group")),
              BindGroupDescriptor(pg_b2, pp_lwd, Some(label \o " pong_ping_bind_group")),
              BindGroupDescriptor(ping_b, sb_lwd, Some(label \o " ping_bind_group")),
              BindGroupDescriptor(pong_b, sb_lwd, Some(label \o " pong_bind_group"))>>,
         ping_pong_bind_group_layout_builder_descriptor |-> pp_lwd,
         ping_pong_bind_group |-> first,
         pong_ping_bind_group |-> first + 1,
         single_buffer_bind_group_layout_builder_descriptor |-> sb_lwd,
         ping_bind_group |-> first + 2,
         pong_bind_group |-> first + 3]

\* the PingPongBuffer both constructors assemble from the two buffers and the
\* result of create_layout_and_bind_group
PingPongBuffer_Self(ping_buffer, pong_buffer, r) ==
    [ping_buffer |-> ping_buffer,
     pong_buffer |-> pong_buffer,
     ping_pong_bind_group_layout_builder_descriptor |->
         r.ping_pong_bind_group_layout_builder_descriptor,
     ping_pong_bind_group |-> r.ping_pong_bind_group,
     pong_ping_bind_group |-> r.pong_ping_bind_group,
     single_buffer_bind_group_layout_builder_descriptor |->
         r.single_buffer_bind_group_layout_builder_descriptor,
     ping_bind_group |-> r.ping_bind_group,
     pong_bind_group |-> r.pong_bind_group,
     state |-> FALSE]

\* get_current_ping_pong_bind_group with the two groups exchanged
get_current_ping_pong_bind_group_exchanged(self) ==
    IF self.state THEN self.pong_ping_bind_group ELSE self.ping_pong_bind_group

\* PingPongBuffer::get_current_ping_pong_bind_group
get_current_ping_pong_bind_group(self) ==
    IF self.state THEN self.ping_pong_bind_group ELSE self.pong_ping_bind_group

\* a swap that sets the state instead of toggling it
swap_state_set(self) == [self EXCEPT !.state = TRUE]

\* PingPongBuffer::swap_state
swap_state(self) == [self EXCEPT !.state = ~self.state]

\* PingPongBuffer::get_current_source_bind_group
get_current_source_bind_group(self) ==
    IF self.state THEN self.ping_bind_group ELSE self.pong_bind_group

\* get_current_target_bind_group with the branches of get_current_source_bind_group
get_current_target_bind_group_as_source(self) ==
    IF self.state THEN self.ping_bind_group ELSE self.pong_bind_group

\* PingPongBuffer::get_current_target_bind_group
get_current_target_bind_group(self) ==
    IF self.state THEN self.pong_bind_group ELSE self.ping_bind_group

\* PingPongBuffer::get_current_source_buffer
get_current_source_buffer(self) ==
    IF self.state THEN self.ping_buffer ELSE self.pong_buffer

\* get_current_target_buffer with the branches of get_current_source_buffer
get_current_target_buffer_as_source(self) ==
    IF self.state THEN self.ping_buffer ELSE self.pong_buffer

\* PingPongBuffer::get_current_target_buffer
get_current_target_buffer(self) ==
    IF self.state THEN self.pong_buffer ELSE self.ping_buffer

\* PingPongBuffer::get_ping_pong_bind_group_layout
get_ping_pong_bind_group_layout(self) ==
    self.ping_pong_bind_group_layout_builder_descriptor.layout

\* PingPongBuffer::get_buffer_bind_group_layout
get_buffer_bind_group_layout(self) ==
    self.single_buffer_bind_group_layout_builder_descriptor.layout

\* what every accessor of a PingPongBuffer returns
BufferAccessors(self) ==
    [state |-> self.state,
     source_buffer |-> get_current_source_buffer(self),
     target_buffer |-> get_current_target_buffer(self),
     source_bind_group |-> get_current_source_bind_group(self),
     target_bind_group |-> get_current_target_bind_group(self),
     ping_pong_bind_group |-> get_current_ping_pong_bind_group(self)]

----------------------------------------------------------------------------
(* ping_pong_texture.rs                                                     *)

\* wgpu::BindingType::Texture { multisampled: false, view_dimension: D2,
\*                              sample_type: Float { filterable: true } }
TextureBinding ==
    [kind |-> "Texture", multisampled |-> FALSE, view_dimension |-> "D2",
     sample_type |-> "Float { filterable: true }"]

\* wgpu::BindingType::Sampler(SamplerBindingType::Filtering)
SamplerBinding == [kind |-> "Sampler", sampler |-> "Filtering"]

\* the layout builder of PingPongTexture::from_descriptor (add_binding_fragment twice)
PingPongTexture_layout_builder ==
    add_binding(add_binding(BindGroupLayoutBuilder_new, "FRAGMENT", TextureBinding),
                "FRAGMENT", SamplerBinding)

\* PingPongTexture::toogle_state
toogle_state(self) == [self EXCEPT !.state = ~self.state]

\* get_target_texture_view with the branches of get_current_target_buffer
get_target_texture_view_as_buffer(self) ==
    IF self.state THEN self.view_pong ELSE self.view_ping

\* PingPongTexture::get_target_texture_view
get_target_texture_view(self) == IF self.state THEN self.view_ping ELSE self.view_pong

\* PingPongTexture::get_rendered_texture_view
get_rendered_texture_view(self) == IF ~self.state THEN self.view_ping ELSE self.view_pong

\* what every accessor of a PingPongTexture returns
TextureAccessors(self) ==
    [state |-> self.state,
     target_texture_view |-> get_target_texture_view(self),
     rendered_texture_view |-> get_rendered_texture_view(self)]

----------------------------------------------------------------------------
(* The ping-pong resources: the calls a caller makes, as actions.           *)

PPInit ==
    /\ ping_pong_buffer = None
    /\ ping_pong_texture = None
    /\ ppt_bind_groups = None
    /\ pp_device = [buffers |-> <<>>, textures |-> <<>>, views |-> <<>>,
                    layouts |-> <<>>, bind_groups |-> <<>>]
    /\ pp_panic = "none"
    /\ ppb_hist = <<>>
    /\ ppt_hist = <<>>

\* the tail shared by both constructors: create_layout_and_bind_group on the
\* device that holds the two new buffers, then Self { .., state: false }
PingPongBuffer_construct(buffer_descriptors, sv, pv, label, size) ==
    LET ping_buffer == NewHandle(pp_device.buffers)
        pong_buffer == NewHandle(pp_device.buffers) + 1
        r == create_layout_and_bind_group(pp_device, ping_buffer, pong_buffer,
                                          sv, pv, label, size)
    IN  IF r.asserts
          THEN /\ pp_device' = [pp_device EXCEPT
                      !.buffers = @ \o buffer_descriptors,
                      !.layouts = @ \o r.layouts,
                      !.bind_groups = @ \o r.bind_groups]
               /\ ping_pong_buffer' = Some(PingPongBuffer_Self(ping_buffer, pong_buffer, r))
               /\ UNCHANGED pp_panic
          ELSE /\ pp_panic' = "PingPongBuffer::create_layout_and_bind_group: assertion failed"
               /\ pp_device' = [pp_device EXCEPT !.buffers = @ \o buffer_descriptors]
               /\ UNCHANGED ping_pong_buffer

\* PingPongBuffer::from_buffer_descriptor(device, descriptor, sv, pv)
FromBufferDescriptor ==
    /\ ping_pong_buffer = None /\ pp_panic = "none"
    /\ \E size \in BufferSizes, label \in Labels, sv \in Visibilities, pv \in Visibilities :
         LET descriptor == [label |-> label, size |-> size, init |-> FALSE] IN
         PingPongBuffer_construct(<<descriptor, descriptor>>, sv, pv, label, size)
    /\ UNCHANGED <<ping_pong_texture, ppt_bind_groups, ppb_hist, ppt_hist>>

\* PingPongBuffer::from_buffer_init_descriptor(device, descriptor, sv, pv):
\* the size is descriptor.contents.len()
FromBufferInitDescriptor ==
    /\ ping_pong_buffer = None /\ pp_panic = "none"
    /\ \E len \in BufferSizes, label \in Labels, sv \in Visibilities, pv \in Visibilities :
         LET descriptor == [label |-> label, size |-> len, init |-> TRUE] IN
         PingPongBuffer_construct(<<descriptor, descriptor>>, sv, pv, label, len)
    /\ UNCHANGED <<ping_pong_texture, ppt_bind_groups, ppb_hist, ppt_hist>>

\* ping_pong_buffer.swap_state()
SwapState ==
    /\ ping_pong_buffer # None /\ pp_panic = "none"
    /\ Len(ppb_hist) < MaxSwaps
    /\ ppb_hist' = Append(ppb_hist, BufferAccessors(ping_pong_buffer[1]))
    /\ ping_pong_buffer' = Some(swap_state(ping_pong_buffer[1]))
    /\ UNCHANGED <<ping_pong_texture, ppt_bind_groups, pp_device, pp_panic, ppt_hist>>

\* PingPongTexture::from_descriptor(device, descriptor, label)
TextureFromDescriptor ==
    /\ ping_pong_texture = None /\ pp_panic = "none"
    /\ \E label \in Labels :
         LET texture_ping == NewHandle(pp_device.textures)
             texture_pong == NewHandle(pp_device.textures) + 1
             view_ping == NewHandle(pp_device.views)
             view_pong == NewHandle(pp_device.views) + 1
             builder == PingPongTexture_layout_builder
             layout_label == Some("BindGroupLayout: " \o UnwrapOr(label, ""))
         IN /\ pp_device' = [pp_device EXCEPT
                   !.textures = @ \o <<"descriptor", "descriptor">>,
                   !.views = @ \o <<texture_ping, texture_pong>>,
                   !.layouts = Append(@, LayoutDescriptor(builder, layout_label))]
            /\ ping_pong_texture' = Some(
                   [label |-> label,
                    view_ping |-> view_ping,
                    view_pong |-> view_pong,
                    bind_group_layout |->
                        BindGroupLayoutBuilder_create(builder, NewHandle(pp_device.layouts)),
                    state |-> FALSE])
    /\ UNCHANGED <<ping_pong_buffer, ppt_bind_groups, pp_panic, ppb_hist, ppt_hist>>

\* ping_pong_texture.create_binding_group(device, sampler)
TextureCreateBindingGroup ==
    /\ ping_pong_texture # None /\ pp_panic = "none"
    /\ ppt_bind_groups = None
    /\ LET self == ping_pong_texture[1]
           lwd == self.bind_group_layout
           ping_b1 == resource(BindGroupBuilder_new, lwd, [texture_view |-> self.view_ping])
           ping_b2 == resource(ping_b1, lwd, [sampler |-> "sampler"])
           pong_b1 == resource(BindGroupBuilder_new, lwd, [texture_view |-> self.view_pong])
           pong_b2 == resource(pong_b1, lwd, [sampler |-> "sampler"])
           first == NewHandle(pp_device.bind_groups)
       IN IF /\ ResourceAssert(BindGroupBuilder_new, lwd) /\ ResourceAssert(ping_b1, lwd)
             /\ CreateAssert(ping_b2, lwd)
             /\ ResourceAssert(pong_b1, lwd) /\ CreateAssert(pong_b2, lwd)
            THEN /\ pp_device' = [pp_device EXCEPT !.bind_groups = @ \o
                        <<BindGroupDescriptor(ping_b2, lwd,
                              Some("BindGroup(ping): " \o UnwrapOr(self.label, ""))),
                          BindGroupDescriptor(pong_b2, lwd,
                              Some("BindGroup(pong): " \o UnwrapOr(self.label, "")))>>]
                 /\ ppt_bind_groups' = Some(<<first, first + 1>>)
                 /\ UNCHANGED pp_panic
            ELSE /\ pp_panic' = "PingPongTexture::create_binding_group: assertion failed"
                 /\ UNCHANGED <<pp_device, ppt_bind_groups>>
    /\ UNCHANGED <<ping_pong_buffer, ping_pong_texture, ppb_hist, ppt_hist>>

\* ping_pong_texture.toogle_state()
ToogleState ==
    /\ ping_pong_texture # None /\ pp_panic = "none"
    /\ Len(ppt_hist) < MaxSwaps
    /\ ppt_hist' = Append(ppt_hist, TextureAccessors(ping_pong_texture[1]))
    /\ ping_pong_texture' = Some(toogle_state(ping_pong_texture[1]))
    /\ UNCHANGED <<ping_pong_buffer, ppt_bind_groups, pp_device, pp_panic, ppb_hist>>

PPNext ==
    \/ FromBufferDescriptor
    \/ FromBufferInitDescriptor
    \/ SwapState
    \/ TextureFromDescriptor
    \/ TextureCreateBindingGroup
    \/ ToogleState

----------------------------------------------------------------------------
(* Bytes.  The Pod types of the model are u32 (4 bytes, little-endian);     *)
(* every value driven is below 2^31.                                        *)

\* std::mem::size_of::<u32>()
SizeOfU32 == 4

\* bytemuck::bytes_of(&v) for v: u32
bytes_of(v) ==
    <<v % 256, (v \div 256) % 256, (v \div 65536) % 256, (v \div 16777216) % 256>>

\* the u32 whose bytes are b (bytemuck::cast_slice from bytes, one element)
u32_from_bytes(b) == b[1] + 256 * b[2] + 65536 * b[3] + 16777216 * b[4]

\* bytemuck::cast_slice(&values): the bytes of a slice of u32
RECURSIVE cast_slice_to_bytes(_)
cast_slice_to_bytes(values) ==
    IF values = <<>> THEN <<>>
    ELSE bytes_of(Head(values)) \o cast_slice_to_bytes(Tail(values))

\* bytemuck::cast_slice(&bytes): the u32 slice of a byte slice
cast_slice_from_bytes(bytes) ==
    [i \in 1..(Len(bytes) \div SizeOfU32) |->
        u32_from_bytes(SubSeq(bytes, SizeOfU32 * (i - 1) + 1, SizeOfU32 * i))]

\* a new buffer's contents: wgpu zero-initialises buffers
ZeroBytes(n) == [i \in 1..n |-> 0]

----------------------------------------------------------------------------
(* uniform_buffer.rs, with Content = u32                                    *)

Contents == {0, 1, 256}

\* std::any::type_name::<Content>() values driven, as character sequences
TypeNames == {<<"m", ":", ":", "U">>, <<"u", "3", "2">>}

\* str::rfind(':'): the 0-based position of the last ':', None when there is none
rfind_colon(type_name) ==
    LET at == {i \in 1..Len(type_name) : type_name[i] = ":"} IN
    IF at = {} THEN None ELSE Some((CHOOSE i \in at : \A j \in at : j <= i) - 1)

RECURSIVE Concat(_)
Concat(chars) == IF chars = <<>> THEN "" ELSE Head(chars) \o Concat(Tail(chars))

\* UniformBuffer::name, where rfind found a ':' : &type_name[(pos + 1)..]
name(type_name) ==
    Concat(SubSeq(type_name, rfind_colon(type_name)[1] + 2, Len(type_name)))

\* the BufferDescriptor of UniformBuffer::new / new_with_data
UniformBufferDescriptor(type_name, mapped_at_creation) ==
    [label |-> Some("UniformBuffer: " \o name(type_name)),
     size |-> SizeOfU32,
     usage |-> {"UNIFORM", "COPY_DST"},
     mapped_at_creation |-> mapped_at_creation]

\* update_content that never takes the early return
ContentUnchanged_never(self, new_content) == FALSE

\* the comparison of UniformBuffer::update_content that takes the early return
ContentUnchanged(self, new_content) == self.previous_content = new_content

\* UniformBuffer::update_content past the early return: the queue write issued
update_content_write(self, new_content) ==
    [buffer |-> self.buffer, offset |-> 0, data |-> new_content]

\* UniformBuffer::update_content past the early return: the new self
update_content_self(self, new_content) ==
    [self EXCEPT !.previous_content = new_content]

\* the panic of the unwrap() in UniformBuffer::name
NamePanic == "UniformBuffer::name: called Option::unwrap() on a None value"

UBInit ==
    /\ uniform_buffer = None
    /\ ub_device = <<>>
    /\ ub_queue = <<>>
    /\ ub_panic = "none"
    /\ ub_calls = <<>>

\* UniformBuffer::<Content>::new(device)
UniformNew ==
    /\ uniform_buffer = None /\ ub_panic = "none"
    /\ \E type_name \in TypeNames :
         IF rfind_colon(type_name) = None
           THEN /\ ub_panic' = NamePanic
                /\ UNCHANGED <<uniform_buffer, ub_device>>
           ELSE /\ ub_device' = Append(ub_device,
                       [desc |-> UniformBufferDescriptor(type_name, FALSE),
                        data |-> ZeroBytes(SizeOfU32), mapped |-> FALSE])
                /\ uniform_buffer' = Some([buffer |-> NewHandle(ub_device),
                                           previous_content |-> <<>>])
                /\ UNCHANGED ub_panic
    /\ UNCHANGED <<ub_queue, ub_calls>>

\* UniformBuffer::<Content>::new_with_data(device, &initial_content): the buffer
\* is created mapped, filled with the content's bytes and unmapped
UniformNewWithData ==
    /\ uniform_buffer = None /\ ub_panic = "none"
    /\ \E type_name \in TypeNames, initial_content \in Contents :
         IF rfind_colon(type_name) = None
           THEN /\ ub_panic' = NamePanic
                /\ UNCHANGED <<uniform_buffer, ub_device>>
           ELSE /\ ub_device' = Append(ub_device,
                       [desc |-> UniformBufferDescriptor(type_name, TRUE),
                        data |-> bytes_of(initial_content), mapped |-> FALSE])
                /\ uniform_buffer' = Some([buffer |-> NewHandle(ub_device),
                                           previous_content |-> bytes_of(initial_content)])
                /\ UNCHANGED ub_panic
    /\ UNCHANGED <<ub_queue, ub_calls>>

\* uniform_buffer.update_content(queue, content); queue.write_buffer is
\* recorded in ub_queue and lands in the buffer
UpdateContent ==
    /\ uniform_buffer # None /\ ub_panic = "none"
    /\ Len(ub_calls) < MaxUpdates
    /\ \E content \in Contents :
         LET self == uniform_buffer[1]
             new_content == bytes_of(content)
         IN /\ ub_calls' = Append(ub_calls, content)
            /\ IF ContentUnchanged(self, new_content)
                 THEN UNCHANGED <<uniform_buffer, ub_device, ub_queue>>
                 ELSE /\ ub_queue' = Append(ub_queue, update_content_write(self, new_content))
                      /\ ub_device' = [ub_device EXCEPT ![self.buffer].data = new_content]
                      /\ uniform_buffer' = Some(update_content_self(self, new_content))
    /\ UNCHANGED ub_panic

UBNext ==
    \/ UniformNew
    \/ UniformNewWithData
    \/ UpdateContent

----------------------------------------------------------------------------
(* buffers.rs: StagingBufferWrapper<T, READ_OR_WRITE>, with T = u32.        *)
(* Buffer 1 of the device is the caller's GPU buffer, the `buffer` given to *)
(* encode_write and encode_read.                                            *)

\* element values driven; 0 is T::zeroed()
ElemValues == {0, 258}
Zeroed == 0

\* the slices of at most n elements
SlicesUpTo(n) == UNION {[1..k -> ElemValues] : k \in 0..n}

\* a device buffer: its descriptor's size and usage, its contents, its map state
DeviceBuffer(size, usage) ==
    [size |-> size, usage |-> usage, data |-> ZeroBytes(size), map_state |-> "unmapped"]

\* create_staging_buffer(device, read_or_write, size): the buffer created
create_staging_buffer(read_or_write, size) ==
    DeviceBuffer(size, {"COPY_DST"} \cup (IF read_or_write THEN {"MAP_READ"}
                                                        ELSE {"COPY_SRC"}))

\* a buffer size counted in elements
buffer_size_in_elements(size) == size

\* `(size * size_of::<T>()) as BufferAddress` of new and new_from_data
buffer_size(size) == size * SizeOfU32

\* a mirror allocated with capacity `size` and no element
zeroed_values_empty(size) == <<>>

\* `vec![T::zeroed(); size]` of StagingBufferWrapper::new
zeroed_values(size) == [i \in 1..size |-> Zeroed]

\* StagingBufferWrapper::len
len(self) == Len(self.values)

\* StagingBufferWrapper::bytes_size
bytes_size(self) == len(self) * SizeOfU32

\* StagingBufferWrapper::values_as_slice
values_as_slice(self) == self.values

\* StagingBufferWrapper::clear: values.fill(T::zeroed())
clear(self) == [self EXCEPT !.values = [i \in 1..Len(self.values) |-> Zeroed]]

\* the queue write of encode_write
encode_write_queue_write(self) ==
    [buffer |-> self.staging_buffer, offset |-> 0,
     data |-> SubSeq(cast_slice_to_bytes(self.values), 1, bytes_size(self))]

\* the copy command encode_write records: staging buffer -> `buffer`
encode_write_copy(self, buffer) ==
    [src |-> self.staging_buffer, src_offset |-> 0,
     dst |-> buffer, dst_offset |-> 0, size |-> bytes_size(self)]

\* the copy command encode_read records: `buffer` -> staging buffer
encode_read_copy(self, buffer) ==
    [src |-> buffer, src_offset |-> 0,
     dst |-> self.staging_buffer, dst_offset |-> 0, size |-> bytes_size(self)]

\* read_and_unmap_buffer that unmaps without copying the mapped range
read_mapped_not_copied(self, mapped) == self

\* read_and_unmap_buffer: values.copy_from_slice(cast_slice(&mapped[0..bytes_size]))
read_mapped(self, mapped) ==
    [self EXCEPT !.values = cast_slice_from_bytes(SubSeq(mapped, 1, bytes_size(self)))]

\* wgpu: bytes `data` written into `old` at offset 0
Overwrite(old, data) ==
    [i \in 1..Len(old) |-> IF i <= Len(data) THEN data[i] ELSE old[i]]

\* wgpu: the buffers after the queue writes `ws`, applied in order
RECURSIVE ApplyWrites(_, _)
ApplyWrites(bufs, ws) ==
    IF ws = <<>> THEN bufs
    ELSE ApplyWrites([bufs EXCEPT ![Head(ws).buffer].data = Overwrite(@, Head(ws).data)],
                     Tail(ws))

\* wgpu: the buffers after the copy commands `cs`, executed in recording order
RECURSIVE ApplyCopies(_, _)
ApplyCopies(bufs, cs) ==
    IF cs = <<>> THEN bufs
    ELSE ApplyCopies([bufs EXCEPT ![Head(cs).dst].data =
                          Overwrite(@, SubSeq(bufs[Head(cs).src].data, 1, Head(cs).size))],
                     Tail(cs))

\* wgpu validation of a submission: copy sources are COPY_SRC, destinations
\* COPY_DST, the copy fits both buffers, and no buffer used is mapped
SubmitValid(bufs, cs) ==
    \A i \in 1..Len(cs) :
        /\ "COPY_SRC" \in bufs[cs[i].src].usage
        /\ "COPY_DST" \in bufs[cs[i].dst].usage
        /\ cs[i].size <= bufs[cs[i].src].size
        /\ cs[i].size <= bufs[cs[i].dst].size
        /\ bufs[cs[i].src].map_state = "unmapped"
        /\ bufs[cs[i].dst].map_state = "unmapped"

GpuBuffer == 1

SBInit ==
    /\ staging = None
    /\ sb_buffers = <<DeviceBuffer(buffer_size(MaxLen), {"STORAGE", "COPY_DST", "COPY_SRC"})>>
    /\ sb_queue = <<>>
    /\ sb_encoder = <<>>
    /\ sb_panic = "none"
    /\ sb_last = [op |-> "none", arg |-> 0]

\* StagingBufferWrapper::<T, READ_OR_WRITE>::new(device, size)
StagingNew ==
    /\ staging = None /\ sb_panic = "none"
    /\ \E size \in 0..MaxLen, read_or_write \in BOOLEAN :
         /\ sb_buffers' = Append(sb_buffers,
                                 create_staging_buffer(read_or_write, buffer_size(size)))
         /\ staging' = Some([values |-> zeroed_values(size),
                             staging_buffer |-> NewHandle(sb_buffers),
                             read_or_write |-> read_or_write])
         /\ sb_last' = [op |-> "new", arg |-> size]
    /\ UNCHANGED <<sb_queue, sb_encoder, sb_panic>>

\* StagingBufferWrapper::<T, READ_OR_WRITE>::new_from_data(device, slice_content)
StagingNewFromData ==
    /\ staging = None /\ sb_panic = "none"
    /\ \E slice_content \in SlicesUpTo(MaxLen), read_or_write \in BOOLEAN :
         LET size == Len(slice_content) IN
         /\ sb_buffers' = Append(sb_buffers,
                                 create_staging_buffer(read_or_write, buffer_size(size)))
         /\ staging' = Some([values |-> slice_content,
                             staging_buffer |-> NewHandle(sb_buffers),
                             read_or_write |-> read_or_write])
         /\ sb_last' = [op |-> "new_from_data", arg |-> size]
    /\ UNCHANGED <<sb_queue, sb_encoder, sb_panic>>

\* a GPU pass of the caller fills the GPU buffer `buffer` with results
GpuPass ==
    /\ sb_panic = "none"
    /\ \E v \in ElemValues :
         sb_buffers' = [sb_buffers EXCEPT
             ![GpuBuffer].data = cast_slice_to_bytes([i \in 1..MaxLen |-> v])]
    /\ UNCHANGED <<staging, sb_queue, sb_encoder, sb_panic, sb_last>>

\* wrapper.encode_write(queue, command_encoder, buffer)
EncodeWrite ==
    /\ staging # None /\ sb_panic = "none"
    /\ Len(sb_encoder) < MaxEncoded
    /\ sb_queue' = Append(sb_queue, encode_write_queue_write(staging[1]))
    /\ sb_encoder' = Append(sb_encoder, encode_write_copy(staging[1], GpuBuffer))
    /\ sb_last' = [op |-> "encode_write", arg |-> 0]
    /\ UNCHANGED <<staging, sb_buffers, sb_panic>>

\* wrapper.encode_read(command_encoder, buffer)
EncodeRead ==
    /\ staging # None /\ sb_panic = "none"
    /\ Len(sb_encoder) < MaxEncoded
    /\ sb_encoder' = Append(sb_encoder, encode_read_copy(staging[1], GpuBuffer))
    /\ sb_last' = [op |-> "encode_read", arg |-> 0]
    /\ UNCHANGED <<staging, sb_buffers, sb_queue, sb_panic>>

\* queue.submit(Some(command_encoder.finish())) by the caller: the pending queue
\* writes land, then the recorded copies run; an invalid submission is a wgpu
\* validation error, which panics
Submit ==
    /\ staging # None /\ sb_panic = "none"
    /\ sb_encoder # <<>>
    /\ IF SubmitValid(sb_buffers, sb_encoder)
         THEN /\ sb_buffers' = ApplyCopies(ApplyWrites(sb_buffers, sb_queue), sb_encoder)
              /\ UNCHANGED sb_panic
         ELSE /\ sb_panic' = "wgpu: validation error in queue submission"
              /\ UNCHANGED sb_buffers
    /\ sb_queue' = <<>>
    /\ sb_encoder' = <<>>
    /\ sb_last' = [op |-> "submit", arg |-> 0]
    /\ UNCHANGED staging

\* wrapper.map_buffer(): map_async(MapMode::Read, |_| {}); a request wgpu
\* rejects (no MAP_READ usage, or already mapped or pending) reports its error
\* to the callback, which drops it
MapBuffer ==
    /\ staging # None /\ sb_panic = "none"
    /\ LET b == staging[1].staging_buffer IN
       IF "MAP_READ" \in sb_buffers[b].usage /\ sb_buffers[b].map_state = "unmapped"
         THEN sb_buffers' = [sb_buffers EXCEPT ![b].map_state = "pending"]
         ELSE UNCHANGED sb_buffers
    /\ sb_last' = [op |-> "map_buffer", arg |-> 0]
    /\ UNCHANGED <<staging, sb_queue, sb_encoder, sb_panic>>

\* device.poll by the caller: a pending map request completes
MapCompletes ==
    /\ staging # None /\ sb_panic = "none"
    /\ sb_buffers[staging[1].staging_buffer].map_state = "pending"
    /\ sb_buffers' = [sb_buffers EXCEPT ![staging[1].staging_buffer].map_state = "mapped"]
    /\ UNCHANGED <<staging, sb_queue, sb_encoder, sb_panic, sb_last>>

\* wrapper.read_and_unmap_buffer(): get_mapped_range panics on a buffer that
\* is not mapped
ReadAndUnmapBuffer ==
    /\ staging # None /\ sb_panic = "none"
    /\ LET b == staging[1].staging_buffer IN
       IF sb_buffers[b].map_state = "mapped"
         THEN /\ staging' = Some(read_mapped(staging[1], sb_buffers[b].data))
              /\ sb_buffers' = [sb_buffers EXCEPT ![b].map_state = "unmapped"]
              /\ UNCHANGED sb_panic
         ELSE /\ sb_panic' = "read_and_unmap_buffer: get_mapped_range on a buffer that is not mapped"
              /\ UNCHANGED <<staging, sb_buffers>>
    /\ sb_last' = [op |-> "read_and_unmap_buffer", arg |-> 0]
    /\ UNCHANGED <<sb_queue, sb_encoder>>

\* wrapper.clear()
Clear ==
    /\ staging # None /\ sb_panic = "none"
    /\ staging' = Some(clear(staging[1]))
    /\ sb_last' = [op |-> "clear", arg |-> 0]
    /\ UNCHANGED <<sb_buffers, sb_queue, sb_encoder, sb_panic>>

\* wrapper.values_as_slice_mut()[i] = v; an index out of range panics
WriteElement ==
    /\ staging # None /\ sb_panic = "none"
    /\ \E i \in 0..MaxLen, v \in ElemValues :
         /\ IF i < len(staging[1])
              THEN /\ staging' = Some([staging[1] EXCEPT !.values[i + 1] = v])
                   /\ UNCHANGED sb_panic
              ELSE /\ sb_panic' = "values_as_slice_mut: index out of bounds"
                   /\ UNCHANGED staging
         /\ sb_last' = [op |-> "values_as_slice_mut", arg |-> i]
    /\ UNCHANGED <<sb_buffers, sb_queue, sb_encoder>>

SBNext ==
    \/ GpuPass
    \/ StagingNew
    \/ StagingNewFromData
    \/ EncodeWrite
    \/ EncodeRead
    \/ Submit
    \/ MapBuffer
    \/ MapCompletes
    \/ ReadAndUnmapBuffer
    \/ Clear
    \/ WriteElement

----------------------------------------------------------------------------
(* render_handles.rs: RenderInstance, DeviceHandle, SurfaceHandle.          *)
(* An index into the device pool counts from 0, as in the source; a native  *)
(* surface is named by its position in rh_surfaces.                         *)

\* Result<T, E>
Ok(v) == [ok |-> TRUE, value |-> v]
Err(e) == [ok |-> FALSE, error |-> e]

\* the value of type ()
Unit == <<>>

\* enum RenderHandleError
NoCompatibleDevice(request_device_error) ==
    [kind |-> "NoCompatibleDevice", source |-> request_device_error]
AdapterRequestError == [kind |-> "AdapterRequestError"]
SurfaceCreationError(create_surface_error) ==
    [kind |-> "SurfaceCreationError", source |-> create_surface_error]
SurfaceTextureFormatRgbaBgraError == [kind |-> "SurfaceTextureFormatRgbaBgraError"]
SurfaceSizeError(width, height) ==
    [kind |-> "SurfaceSizeError", width |-> width, height |-> height]

\* the platform: its adapters, the windows a surface is created for, and the
\* windows whose surfaces each adapter supports
Adapters == {"igpu", "dgpu"}
Windows == {"w1", "w2"}
SupportedWindows(adapter) == IF adapter = "igpu" THEN {"w1"} ELSE {"w1", "w2"}

\* adapter.features() of the platform's adapters
AdapterFeatures(adapter) ==
    IF adapter = "igpu" THEN {"TIMESTAMP_QUERY"} ELSE {"CLEAR_TEXTURE", "TIMESTAMP_QUERY"}

\* the arguments the calls are driven with
Extents == {<<0, 2>>, <<1, 0>>, <<1, 2>>, <<2, 1>>}
PresentModes == {"Fifo", "Immediate"}
PowerPreferences == {None, Some("HighPerformance")}
\* the format lists the surface capabilities report
FormatLists ==
    {<<>>,
     <<"Rgba16Float">>,
     <<"Rgba16Float", "Rgba8Unorm">>,
     <<"Rgba8Unorm", "Bgra8Unorm">>,
     <<"Rgba16Float", "Bgra8Unorm", "Rgba8Unorm">>,
     <<"Bgra8Unorm", "Rgba16Float", "Rgba8Unorm">>}

\* adapter.is_surface_supported(surface)
is_surface_supported(surfaces, adapter, surface) ==
    surfaces[surface].window \in SupportedWindows(adapter)

\* the adapters an adapter request for compatible_surface can return
CompatibleAdapters(surfaces, compatible_surface) ==
    IF compatible_surface = None THEN Adapters
    ELSE {a \in Adapters : is_surface_supported(surfaces, a, compatible_surface[1])}

\* what the environment and the driver answer during one device acquisition:
\* wgpu::util::initialize_adapter_from_env, PowerPreference::from_env,
\* instance.request_adapter and adapter.request_device
Environments(surfaces, compatible_surface) ==
    [adapter_from_env : {None} \cup {Some(a) : a \in CompatibleAdapters(surfaces, compatible_surface)},
     power_from_env : {None, Some("LowPower")},
     request_adapter : {Err("RequestAdapterError")}
                         \cup {Ok(a) : a \in CompatibleAdapters(surfaces, compatible_surface)},
     request_device : {Err("RequestDeviceError"), Ok(Unit)}]

\* the least element of a non-empty set of numbers
SetMin(S) == CHOOSE m \in S : \A x \in S : m <= x

\* a device lookup that takes the first handle of the pool whatever the surface
compatible_device_index_first_handle(devs, surfaces, compatible_surface) ==
    IF devs # <<>> THEN Some(0) ELSE None

\* a device lookup that finds no handle
compatible_device_index_none(devs, surfaces, compatible_surface) == None

\* a device lookup that matches no handle to a surface
compatible_device_index_ignores_surfaces(devs, surfaces, compatible_surface) ==
    IF compatible_surface = None /\ devs # <<>> THEN Some(0) ELSE None

\* a device lookup that takes the last matching handle of the pool
compatible_device_index_last_match(devs, surfaces, compatible_surface) ==
    IF compatible_surface # None
      THEN LET found == {i \in 0..(Len(devs) - 1) :
                           is_surface_supported(surfaces, devs[i + 1].adapter,
                                                compatible_surface[1])}
           IN  IF found = {} THEN None
               ELSE Some(CHOOSE m \in found : \A x \in found : x <= m)
      ELSE IF devs # <<>> THEN Some(Len(devs) - 1) ELSE None

\* RenderInstance::device, `let compatible_device_index = match ...`
compatible_device_index(devs, surfaces, compatible_surface) ==
    IF compatible_surface # None
      THEN LET found == {i \in 0..(Len(devs) - 1) :
                           is_surface_supported(surfaces, devs[i + 1].adapter,
                                                compatible_surface[1])}
           IN  IF found = {} THEN None ELSE Some(SetMin(found))
      ELSE IF devs # <<>> THEN Some(0) ELSE None

\* the wgpu::RequestAdapterOptions of new_device
RequestAdapterOptions(compatible_surface, power_preference, env) ==
    [power_preference |-> UnwrapOr(power_preference, UnwrapOr(env.power_from_env, "None")),
     force_fallback_adapter |-> FALSE,
     compatible_surface |-> compatible_surface]

\* an adapter selection that reports a failed adapter request as a device error
new_device_adapter_as_device_error(env) ==
    IF ~env.request_adapter.ok
      THEN Err(NoCompatibleDevice("RequestDeviceError"))
      ELSE Ok(UnwrapOr(env.adapter_from_env, env.request_adapter.value))

\* new_device, `let adapter = initialize_adapter_from_env(..).unwrap_or(
\* request_adapter(..).await.map_err(..)?)`: the argument of unwrap_or is
\* evaluated, and its `?` returns, before unwrap_or chooses
new_device_adapter(env) ==
    IF ~env.request_adapter.ok
      THEN Err(AdapterRequestError)
      ELSE Ok(UnwrapOr(env.adapter_from_env, env.request_adapter.value))

\* the wgpu::DeviceDescriptor of new_device
DeviceDescriptor(adapter) ==
    [label |-> None,
     required_features |-> AdapterFeatures(adapter) \cap {"CLEAR_TEXTURE"},
     required_limits |-> "Limits::default()"]

\* struct DeviceHandle; the device and its queue carry the same number
DeviceHandle(adapter, id) ==
    [adapter |-> adapter,
     device |-> [id |-> id, descriptor |-> DeviceDescriptor(adapter)],
     queue |-> id]

\* a new_device that stores the handle before the device request is answered
new_device_push_before_request(devs, compatible_surface, power_preference, env) ==
    LET adapter == new_device_adapter(env)
        adapter_request ==
            Some([options |-> RequestAdapterOptions(compatible_surface,
                                                    power_preference, env),
                  answer |-> env.request_adapter])
    IN  IF ~adapter.ok
          THEN [result |-> adapter, devices |-> devs,
                adapter_request |-> adapter_request, device_request |-> None]
          ELSE LET pushed == Append(devs, DeviceHandle(adapter.value, Len(devs) + 1))
               IN  [result |-> IF env.request_device.ok
                                 THEN Ok(Len(pushed) - 1)
                                 ELSE Err(NoCompatibleDevice(env.request_device.error)),
                    devices |-> pushed,
                    adapter_request |-> adapter_request,
                    device_request |-> Some(env.request_device)]

\* RenderInstance::new_device: the result, the pool afterwards, and the
\* requests made with their answers
new_device(devs, compatible_surface, power_preference, env) ==
    LET adapter == new_device_adapter(env)
        adapter_request ==
            Some([options |-> RequestAdapterOptions(compatible_surface,
                                                    power_preference, env),
                  answer |-> env.request_adapter])
    IN  IF ~adapter.ok
          THEN [result |-> adapter, devices |-> devs,
                adapter_request |-> adapter_request, device_request |-> None]
        ELSE IF ~env.request_device.ok
          THEN [result |-> Err(NoCompatibleDevice(env.request_device.error)),
                devices |-> devs,
                adapter_request |-> adapter_request,
                device_request |-> Some(env.request_device)]
        ELSE LET pushed == Append(devs, DeviceHandle(adapter.value, Len(devs) + 1))
             IN  [result |-> Ok(Len(pushed) - 1), devices |-> pushed,
                  adapter_request |-> adapter_request,
                  device_request |-> Some(env.request_device)]

\* RenderInstance::device
device(devs, surfaces, compatible_surface, power_preference, env) ==
    LET index == compatible_device_index(devs, surfaces, compatible_surface)
    IN  IF index # None
          THEN [result |-> Ok(index[1]), devices |-> devs,
                adapter_request |-> None, device_request |-> None]
          ELSE new_device(devs, compatible_surface, power_preference, env)

\* the outcomes of render_instance.device(compatible_surface, power_preference)
\* over the power preferences given and the answers of the environment; a
\* call that finds a compatible handle in the pool consults neither, and one
\* preference and one answer stand for all of them
Acquisitions(devs, surfaces, compatible_surface) ==
    LET answers == Environments(surfaces, compatible_surface)
        consulted == compatible_device_index(devs, surfaces, compatible_surface) = None
    IN  {device(devs, surfaces, compatible_surface, power_preference, env) :
            power_preference \in IF consulted THEN PowerPreferences ELSE {None},
            env \in IF consulted THEN answers ELSE {CHOOSE e \in answers : TRUE}}

\* a size check that looks at the width only
create_size_rejected_width_only(width, height) == width = 0

\* create_render_surface, `if width == 0 || height == 0`
create_size_rejected(width, height) == width = 0 \/ height = 0

\* a format selection that takes the first reported format
select_format_first_reported(formats) ==
    IF formats = <<>> THEN None ELSE Some(formats[1])

\* create_render_surface, `capabilities.formats.into_iter().find(|it|
\* matches!(it, Rgba8Unorm | Bgra8Unorm))`
select_format(formats) ==
    LET found == {i \in 1..Len(formats) : formats[i] \in {"Rgba8Unorm", "Bgra8Unorm"}}
    IN  IF found = {} THEN None ELSE Some(formats[SetMin(found)])

\* the wgpu::SurfaceConfiguration of create_render_surface
SurfaceConfiguration(format, width, height, present_mode) ==
    [usage |-> "RENDER_ATTACHMENT",
     format |-> format,
     width |-> width,
     height |-> height,
     present_mode |-> present_mode,
     desired_maximum_frame_latency |-> 2,
     alpha_mode |-> "Auto",
     view_formats |-> <<>>]

\* struct SurfaceHandle
SurfaceHandle(surface, config, device_handle_id) ==
    [surface |-> surface, config |-> config, device_handle_id |-> device_handle_id]

\* instance.create_surface: a native surface, not configured yet
NativeSurface(window) == [window |-> window, configured |-> None]

\* SurfaceHandle::configure: surface.configure(device, &self.config)
configure(self, surfaces, dev) ==
    [surfaces EXCEPT ![self.surface].configured = Some([device |-> dev, config |-> self.config])]

\* RenderInstance::device_from_surface_handle
device_from_surface_handle(devs, surface_handle) ==
    devs[surface_handle.device_handle_id + 1]

\* a size check that rejects only a surface without any pixel row and column
resize_size_rejected_both_zero(width, height) == width = 0 /\ height = 0

\* SurfaceHandle::resize, `if width == 0 || height == 0`
resize_size_rejected(width, height) == width = 0 \/ height = 0

\* a resize that stores the size before it checks it
resize_store_before_check(self, surfaces, dev, width, height) ==
    LET stored == [self EXCEPT !.config.width = width, !.config.height = height]
    IN  IF resize_size_rejected(width, height)
          THEN [self |-> stored, surfaces |-> surfaces,
                result |-> Err(SurfaceSizeError(width, height)), configure_calls |-> 0]
          ELSE [self |-> stored, surfaces |-> configure(stored, surfaces, dev),
                result |-> Ok(Unit), configure_calls |-> 1]

\* SurfaceHandle::resize: the handle and the surfaces afterwards, the result
resize(self, surfaces, dev, width, height) ==
    IF resize_size_rejected(width, height)
      THEN [self |-> self, surfaces |-> surfaces,
            result |-> Err(SurfaceSizeError(width, height)), configure_calls |-> 0]
      ELSE LET stored == [self EXCEPT !.config.width = width, !.config.height = height]
           IN  [self |-> stored, surfaces |-> configure(stored, surfaces, dev),
                result |-> Ok(Unit), configure_calls |-> 1]

\* a set_present_mode that leaves the reconfiguration to the next resize
set_present_mode_deferred(self, surfaces, dev, present_mode) ==
    [self |-> [self EXCEPT !.config.present_mode = present_mode],
     surfaces |-> surfaces, configure_calls |-> 0]

\* SurfaceHandle::set_present_mode
set_present_mode(self, surfaces, dev, present_mode) ==
    LET stored == [self EXCEPT !.config.present_mode = present_mode]
    IN  [self |-> stored, surfaces |-> configure(stored, surfaces, dev),
         configure_calls |-> 1]

\* the record of a call: what it was given, what it returned, and the calls
\* it made on the instance, the adapter and the surface
Call(op, surface, width, height, result) ==
    [op |-> op, surface |-> surface, width |-> width, height |-> height,
     result |-> result, device_index |-> None, create_surface_calls |-> 0,
     adapter_request |-> None, device_request |-> None, formats |-> <<>>,
     configure_calls |-> 0]

\* the record of a call that acquired a device with outcome `d`
WithDevice(call, d) ==
    [call EXCEPT !.device_index = IF d.result.ok THEN Some(d.result.value) ELSE None,
                 !.adapter_request = d.adapter_request,
                 !.device_request = d.device_request]

RHInit ==
    /\ devices = <<>>
    /\ rh_surfaces = <<>>
    /\ surface_handles = <<>>
    /\ rh_last = Call("none", None, 0, 0, Ok(Unit))
    /\ rh_pending = None

\* device(compatible_surface, power_preference) finds no handle in the pool
\* and its future returns Pending at request_adapter(..).await in new_device:
\* the adapter request is outstanding.  The power preference given and the
\* answers of the environment show in nothing but the value the call returns,
\* and are drawn when it returns
Suspended(op, compatible_surface, width, height, at) ==
    [op |-> op, surface |-> compatible_surface, width |-> width, height |-> height,
     at |-> at]

\* create_render_surface from `let device_handle_id = self.device(..).await?`
\* on, the device acquisition having had the outcome d; a surface the call
\* created and did not return is dropped
CreateRenderSurfaceFrom(surfaces, surface, width, height, d) ==
    LET acquired ==
          [WithDevice(Call("create_render_surface", Some(surface),
                           width, height, d.result), d)
             EXCEPT !.create_surface_calls = 1]
    IN
    IF ~d.result.ok
      THEN /\ devices' = d.devices
           /\ rh_surfaces' = surfaces
           /\ rh_last' = acquired
           /\ UNCHANGED surface_handles
      ELSE
        \E formats \in FormatLists :
          LET device_handle_id == d.result.value
              device_handle == d.devices[device_handle_id + 1]
              selected == select_format(formats)
          IN
          IF selected = None
            THEN /\ devices' = d.devices
                 /\ rh_surfaces' = surfaces
                 /\ rh_last' =
                      [acquired EXCEPT
                         !.result = Err(SurfaceTextureFormatRgbaBgraError),
                         !.formats = formats]
                 /\ UNCHANGED surface_handles
            ELSE
              \E present_mode \in PresentModes :
                LET config == SurfaceConfiguration(selected[1], width,
                                                   height, present_mode)
                    surface_handle == SurfaceHandle(surface, config,
                                                    device_handle_id)
                IN  /\ devices' = d.devices
                    /\ rh_surfaces' = configure(surface_handle, surfaces,
                                                device_handle.device)
                    /\ surface_handles' =
                         Append(surface_handles, surface_handle)
                    /\ rh_last' =
                         [acquired EXCEPT
                            !.result = Ok(Len(surface_handles) + 1),
                            !.formats = formats,
                            !.configure_calls = 1]

\* render_instance.device(compatible_surface, power_preference), the surface
\* being the one of a SurfaceHandle the caller holds: polled until it returns,
\* or until request_adapter(..).await returns Pending
Device ==
    /\ rh_pending = None
    /\ \E compatible_surface \in {None} \cup {Some(surface_handles[h].surface) :
                                                 h \in 1..Len(surface_handles)} :
         \/ \E d \in Acquisitions(devices, rh_surfaces, compatible_surface) :
              /\ devices' = d.devices
              /\ rh_last' = WithDevice(Call("device", compatible_surface, 0, 0, d.result), d)
              /\ UNCHANGED <<rh_surfaces, surface_handles, rh_pending>>
         \/ /\ compatible_device_index(devices, rh_surfaces, compatible_surface) = None
            /\ UNCHANGED <<devices, rh_surfaces, surface_handles, rh_last>>
            /\ rh_pending' = Some(Suspended("device", compatible_surface, 0, 0,
                                             "request_adapter"))

\* render_instance.create_render_surface(window, width, height, present_mode,
\* power_preference): polled until it returns, or until request_adapter(..)
\* .await returns Pending, the surface being created and not yet configured.
\* A window carries one surface at a time: the call is made for a window
\* that is not the window of a SurfaceHandle the caller holds
CreateRenderSurface ==
    /\ rh_pending = None
    /\ \E extent \in Extents :
      LET width == extent[1]
          height == extent[2]
      IN
      IF create_size_rejected(width, height)
        THEN /\ rh_last' = Call("create_render_surface", None, width, height,
                                Err(SurfaceSizeError(width, height)))
             /\ UNCHANGED <<devices, rh_surfaces, surface_handles, rh_pending>>
        ELSE
          /\ Len(rh_surfaces) < MaxSurfaces
          /\ \E created \in {Err("CreateSurfaceError"), Ok(Unit)} :
               IF ~created.ok
                 THEN /\ rh_last' =
                           [Call("create_render_surface", None, width, height,
                                 Err(SurfaceCreationError(created.error)))
                              EXCEPT !.create_surface_calls = 1]
                      /\ UNCHANGED <<devices, rh_surfaces, surface_handles, rh_pending>>
                 ELSE
                   \E window \in Windows \ {rh_surfaces[surface_handles[h].surface].window :
                                              h \in 1..Len(surface_handles)} :
                     LET surfaces == Append(rh_surfaces, NativeSurface(window))
                         surface == Len(surfaces)
                     IN
                     \/ /\ UNCHANGED rh_pending
                        /\ \E d \in Acquisitions(devices, surfaces, Some(surface)) :
                             CreateRenderSurfaceFrom(surfaces, surface, width, height, d)
                     \/ /\ compatible_device_index(devices, surfaces, Some(surface)) = None
                        /\ rh_surfaces' = surfaces
                        /\ UNCHANGED <<devices, surface_handles, rh_last>>
                        /\ rh_pending' = Some(Suspended("create_render_surface",
                                                         Some(surface), width, height,
                                                         "request_adapter"))

\* the executor polls the suspended call again: the outstanding request has
\* its answer; after the adapter request new_device goes on to
\* request_device(..).await, which returns Pending once more, or the call
\* runs to its return
Poll ==
    /\ rh_pending # None
    /\ LET p == rh_pending[1] IN
       \/ /\ p.at = "request_adapter"
          /\ rh_pending' = Some(Suspended(p.op, p.surface, p.width, p.height,
                                          "request_device"))
          /\ UNCHANGED <<devices, rh_surfaces, surface_handles, rh_last>>
       \/ /\ rh_pending' = None
          /\ \E power_preference \in PowerPreferences :
               \E env \in Environments(rh_surfaces, p.surface) :
                 /\ p.at = "request_device" => new_device_adapter(env).ok
                 /\ LET d == new_device(devices, p.surface, power_preference, env) IN
                    IF p.op = "device"
                      THEN /\ devices' = d.devices
                           /\ rh_last' = WithDevice(Call("device", p.surface, 0, 0,
                                                         d.result), d)
                           /\ UNCHANGED <<rh_surfaces, surface_handles>>
                      ELSE CreateRenderSurfaceFrom(rh_surfaces, p.surface[1],
                                                   p.width, p.height, d)

\* the caller drops the future of the suspended call: nothing is returned,
\* and the surface a create_render_surface call had created is dropped
DropFuture ==
    /\ rh_pending # None
    /\ rh_pending' = None
    /\ UNCHANGED <<devices, rh_surfaces, surface_handles, rh_last>>

\* surface_handle.resize(device, width, height), the device being the one of
\* render_instance.device_from_surface_handle(surface_handle)
Resize ==
    \E h \in 1..Len(surface_handles), extent \in Extents :
      LET self == surface_handles[h]
          width == extent[1]
          height == extent[2]
          r == resize(self, rh_surfaces,
                      device_from_surface_handle(devices, self).device, width, height)
      IN  /\ surface_handles' = [surface_handles EXCEPT ![h] = r.self]
          /\ rh_surfaces' = r.surfaces
          /\ rh_last' = [Call("resize", Some(self.surface), width, height, r.result)
                           EXCEPT !.configure_calls = r.configure_calls]
          /\ UNCHANGED <<devices, rh_pending>>

\* surface_handle.set_present_mode(device, present_mode), the device being the
\* one of render_instance.device_from_surface_handle(surface_handle)
SetPresentMode ==
    \E h \in 1..Len(surface_handles), present_mode \in PresentModes :
      LET self == surface_handles[h]
          r == set_present_mode(self, rh_surfaces,
                                device_from_surface_handle(devices, self).device,
                                present_mode)
      IN  /\ surface_handles' = [surface_handles EXCEPT ![h] = r.self]
          /\ rh_surfaces' = r.surfaces
          /\ rh_last' = [Call("set_present_mode", Some(self.surface), 0, 0, Ok(Unit))
                           EXCEPT !.configure_calls = r.configure_calls]
          /\ UNCHANGED <<devices, rh_pending>>

\* surface_handle.configure(device), the public method, with the device of
\* the handle; `config` is a public field of the handle, and the caller has
\* left it as it was or has written 0 to its width
Configure ==
    \E h \in 1..Len(surface_handles) :
      \E width \in {surface_handles[h].config.width, 0} :
        LET self == [surface_handles[h] EXCEPT !.config.width = width]
        IN  /\ surface_handles' = [surface_handles EXCEPT ![h] = self]
            /\ rh_surfaces' = configure(self, rh_surfaces,
                                        device_from_surface_handle(devices, self).device)
            /\ rh_last' = [Call("configure", Some(self.surface), 0, 0, Ok(Unit))
                             EXCEPT !.configure_calls = 1]
            /\ UNCHANGED <<devices, rh_pending>>

RHNext ==
    \/ Device
    \/ CreateRenderSurface
    \/ Poll
    \/ DropFuture
    \/ Resize
    \/ SetPresentMode
    \/ Configure

----------------------------------------------------------------------------
(* app.rs: run_loop, the handler event_loop.run calls for every event, and  *)
(* render_app.  A call run_loop makes is recorded by name; a callback of    *)
(* the application that returns Err ends run_loop at its `?`.               *)

\* the events delivered: window events (Resized, CloseRequested,
\* KeyboardInput, MouseInput, RedrawRequested, and CursorMoved for the
\* events run_loop does not match), AboutToWait and LoopExiting
Events ==
    {[kind |-> "Resized", width |-> e[1], height |-> e[2]] : e \in {<<0, 0>>, <<2, 1>>}}
      \cup {[kind |-> "KeyboardInput", state |-> st, physical_key |-> key] :
               st \in {"Pressed", "Released"}, key \in {"Escape", "KeyA"}}
      \cup {[kind |-> k] : k \in {"CloseRequested", "MouseInput", "RedrawRequested",
                                  "CursorMoved", "AboutToWait", "LoopExiting"}}

\* what surface.get_current_texture() answers
SurfaceTextureResults ==
    {Ok("SurfaceTexture")} \cup {Err(e) : e \in {"Timeout", "Outdated", "Lost", "OutOfMemory"}}

\* the callbacks of the App trait run_loop calls with `?`
Callbacks ==
    {"app.handle_event", "app.on_mouse", "app.on_key", "app.render", "app.render_gui",
     "app.post_render", "app.update", "app.cleanup"}

\* render_app(app, app_state, output)
render_app == <<"app.render", "app.render_gui", "queue.submit", "output.present">>

\* a RedrawRequested arm that asks for the exit on every acquisition error
redraw_requested_exit_on_error(acquired) ==
    <<"surface.get_current_texture">>
      \o (IF acquired.ok THEN render_app ELSE <<"elwt.exit">>)
      \o <<"app.post_render">>

\* run_loop, the WindowEvent::RedrawRequested arm
redraw_requested(acquired) ==
    <<"surface.get_current_texture">>
      \o (IF acquired.ok THEN render_app
          ELSE IF acquired.error = "OutOfMemory" THEN <<"elwt.exit">>
          ELSE <<"eprintln">>)
      \o <<"app.post_render">>

\* run_loop, the arm `WindowEvent::CloseRequested | WindowEvent::KeyboardInput
\* { state: Pressed, physical_key: Code(Escape) }`
is_exit_event(event) ==
    \/ event.kind = "CloseRequested"
    \/ /\ event.kind = "KeyboardInput"
       /\ event.state = "Pressed"
       /\ event.physical_key = "Escape"

\* run_loop: the calls it makes for an event, in order, when no callback
\* returns Err; the arms of the match in source order
run_loop_calls(event, acquired) ==
    <<"app.handle_event">>
      \o (IF event.kind = "Resized"
            THEN IF event.width > 0 /\ event.height > 0
                   THEN <<"surface.configure", "window.request_redraw">>
                   ELSE <<>>
          ELSE IF is_exit_event(event) THEN <<"elwt.exit">>
          ELSE IF event.kind = "MouseInput" THEN <<"app.on_mouse">>
          ELSE IF event.kind = "KeyboardInput" THEN <<"app.on_key">>
          ELSE IF event.kind = "RedrawRequested" THEN redraw_requested(acquired[1])
          ELSE IF event.kind = "AboutToWait" THEN <<"app.update", "window.request_redraw">>
          ELSE IF event.kind = "LoopExiting" THEN <<"app.cleanup">>
          ELSE <<>>)

\* run_loop(app, app_state, event, elwt) when the callback `failing` returns
\* Err ("none": every callback returns Ok): the calls made up to the first
\* `?` that returns, the configuration afterwards and the value returned
run_loop(config, event, acquired, failing) ==
    LET calls == run_loop_calls(event, acquired)
        at == {i \in 1..Len(calls) : calls[i] = failing}
        made == IF at = {} THEN calls ELSE SubSeq(calls, 1, SetMin(at))
    IN  [calls |-> made,
         config |-> IF event.kind = "Resized" /\ failing # "app.handle_event"
                      THEN [width |-> event.width, height |-> event.height]
                      ELSE config,
         result |-> IF at = {} THEN Ok(Unit) ELSE Err(failing)]

\* the calls of a sequence, as a set
Made(calls) == {calls[i] : i \in 1..Len(calls)}

AppInit ==
    /\ app_config = [width |-> 1, height |-> 2]
    /\ app_exit = FALSE
    /\ app_hist = <<>>

\* event_loop.run delivers an event to run_loop; LoopExiting is the last
\* event, delivered once the exit has been asked for
RunLoop ==
    /\ Len(app_hist) < MaxEvents
    /\ IF app_hist = <<>> THEN TRUE
       ELSE app_hist[Len(app_hist)].event.kind # "LoopExiting"
    /\ \E event \in Events :
         /\ event.kind = "LoopExiting" => app_exit
         /\ \E acquired \in IF event.kind = "RedrawRequested"
                              THEN {Some(r) : r \in SurfaceTextureResults}
                              ELSE {None} :
              \E failing \in {"none"} \cup (Callbacks \cap Made(run_loop_calls(event, acquired))) :
                LET r == run_loop(app_config, event, acquired, failing)
                    texture == IF "surface.get_current_texture" \in Made(r.calls)
                                 THEN acquired ELSE None
                IN  /\ app_config' = r.config
                    /\ app_exit' = (app_exit \/ "elwt.exit" \in Made(r.calls))
                    /\ app_hist' = Append(app_hist,
                                          [event |-> event, acquired |-> texture,
                                           calls |-> r.calls, result |-> r.result,
                                           exit |-> app_exit'])

----------------------------------------------------------------------------
(* Properties of the binding builders.                                      *)

\* the calls of one kind made so far
NumCalls(op) == Cardinality({i \in 1..Len(bb_calls) : bb_calls[i].op = op})

\* the calls that added a layout entry, in call order
IsLayoutCall(c) == c.op \in {"add_raw_binding", "add_binding"}
LayoutCalls == SelectSeq(bb_calls, IsLayoutCall)

\* the resources given to the resource calls, in call order
IsResourceCall(c) == c.op = "resource"
ResourceCalls == SelectSeq(bb_calls, IsResourceCall)

SetMax(S) == CHOOSE m \in S : \A x \in S : x <= m

LastCall == bb_calls[Len(bb_calls)]

\* C1: N calls of add_binding on a fresh layout builder, with no call of
\* add_raw_binding, give an entry list of length N whose i-th entry (from 0)
\* has binding index i.
C1_AddBindingIndices ==
    NumCalls("add_raw_binding") = 0 =>
        /\ Len(layout_builder.entries) = NumCalls("add_binding")
        /\ \A i \in 1..Len(layout_builder.entries) :
               layout_builder.entries[i].binding = i - 1

C1_Witness ==
    /\ NumCalls("add_raw_binding") = 0
    /\ NumCalls("add_binding") = 3
    /\ layout_builder.entries[3].binding = 2

\* C2: BindGroupBuilder::create panics and compiles no bind group when the
\* number of resources supplied differs from the number of layout entries, and
\* compiles exactly the supplied entries against the layout when they are equal.
C2_CreateChecksCount ==
    /\ (bb_calls # <<>> /\ LastCall.op = "create") =>
          IF NumCalls("resource") = Len(layout_with_desc.entries)
            THEN /\ bb_panic = "none"
                 /\ Len(dev_bind_groups) = 1
                 /\ dev_bind_groups[1].entries = group_builder.entries
                 /\ dev_bind_groups[1].layout = layout_with_desc.layout
            ELSE /\ bb_panic = CreatePanic
                 /\ dev_bind_groups = <<>>
    /\ \A g \in 1..Len(dev_bind_groups) :
          Len(dev_bind_groups[g].entries)
             = Len(dev_layouts[dev_bind_groups[g].layout].entries)

C2_Witness ==
    /\ bb_panic = CreatePanic
    /\ LastCall.op = "create"
    /\ NumCalls("resource") = 1
    /\ Len(layout_with_desc.entries) = 2
    /\ dev_bind_groups = <<>>

\* C3: the entry list stored by BindGroupLayoutBuilder::create is the sequence
\* of entries added, in call order (and the one the layout was compiled from),
\* and after k resource calls the i-th bind-group entry carries the binding
\* index of the i-th stored layout entry and the i-th resource given.
C3_ResourceFollowsLayoutOrder ==
    /\ Len(layout_builder.entries) = Len(LayoutCalls)
    /\ \A i \in 1..Len(LayoutCalls) :
          /\ layout_builder.entries[i].visibility = LayoutCalls[i].arg.visibility
          /\ layout_builder.entries[i].ty = LayoutCalls[i].arg.ty
          /\ LayoutCalls[i].op = "add_raw_binding"
                => layout_builder.entries[i] = LayoutCalls[i].arg
    /\ bb_pc # "BindGroupLayoutBuilder" =>
          /\ layout_with_desc.entries = layout_builder.entries
          /\ dev_layouts[layout_with_desc.layout].entries = layout_with_desc.entries
    /\ bb_panic = "none" => Len(group_builder.entries) = Len(ResourceCalls)
    /\ \A i \in 1..Len(group_builder.entries) :
          /\ group_builder.entries[i].binding = layout_with_desc.entries[i].binding
          /\ group_builder.entries[i].resource = ResourceCalls[i].arg

C3_Witness ==
    /\ Len(group_builder.entries) = 3
    /\ layout_with_desc.entries[1].binding = 1
    /\ layout_with_desc.entries[2].binding = 0
    /\ layout_with_desc.entries[3].binding = 1
    /\ group_builder.entries[1].binding = 1
    /\ group_builder.entries[2].binding = 0
    /\ group_builder.entries[1].resource # group_builder.entries[2].resource

\* C4 (as claimed): every add_binding call assigns one more than the highest
\* binding index in the builder so far (0 on an empty builder), so the index it
\* assigns is never the index of an entry already in the builder.
C4_AutoIndexIsNextUnused ==
    \A i \in 1..Len(layout_builder.entries) :
        LayoutCalls[i].op = "add_binding" =>
            /\ layout_builder.entries[i].binding =
                  IF i = 1 THEN 0
                  ELSE 1 + SetMax({layout_builder.entries[j].binding : j \in 1..(i - 1)})
            /\ \A j \in 1..(i - 1) :
                  layout_builder.entries[j].binding # layout_builder.entries[i].binding

----------------------------------------------------------------------------
(* Properties of the ping-pong resources.                                   *)

\* what the accessors returned before each toggle so far, then what they return now
BufferTimeline ==
    IF ping_pong_buffer = None THEN <<>>
    ELSE Append(ppb_hist, BufferAccessors(ping_pong_buffer[1]))

TextureTimeline ==
    IF ping_pong_texture = None THEN <<>>
    ELSE Append(ppt_hist, TextureAccessors(ping_pong_texture[1]))

\* C5: two consecutive swap_state calls on a PingPongBuffer, and two
\* consecutive toogle_state calls on a PingPongTexture, bring `state` and what
\* every source / target accessor returns back to what they were before.
C5_TwoTogglesRestore ==
    /\ \A k \in 1..(Len(BufferTimeline) - 2) : BufferTimeline[k + 2] = BufferTimeline[k]
    /\ \A k \in 1..(Len(TextureTimeline) - 2) : TextureTimeline[k + 2] = TextureTimeline[k]

C5_Witness ==
    /\ Len(ppb_hist) = 3 /\ Len(ppt_hist) = 3
    /\ ping_pong_buffer[1].state = ppb_hist[2].state
    /\ ping_pong_buffer[1].state # ppb_hist[3].state
    /\ ping_pong_texture[1].state = ppt_hist[2].state

\* C6: one swap_state call exchanges source and target: the source buffer
\* after the call is the target buffer before it and the reverse, and the same
\* for the source and target bind groups.
C6_SwapExchangesSourceAndTarget ==
    \A k \in 1..(Len(BufferTimeline) - 1) :
        LET before == BufferTimeline[k]
            after == BufferTimeline[k + 1]
        IN  /\ after.source_buffer = before.target_buffer
            /\ after.target_buffer = before.source_buffer
            /\ after.source_bind_group = before.target_bind_group
            /\ after.target_bind_group = before.source_bind_group

C6_Witness ==
    /\ Len(ppb_hist) = 2
    /\ get_current_source_buffer(ping_pong_buffer[1]) = ppb_hist[2].target_buffer
    /\ get_current_source_buffer(ping_pong_buffer[1]) # ppb_hist[2].source_buffer
    /\ get_current_target_bind_group(ping_pong_buffer[1]) = ppb_hist[2].source_bind_group

\* C25: in every state of a ping-pong resource the current source and the
\* current target are two different backing resources and together are ping
\* and pong: for a PingPongBuffer the source and target buffers, for a
\* PingPongTexture the rendered and target views (of two different textures);
\* what the accessors return is a function of `state` alone.
C25_SourceAndTargetAreDistinct ==
    /\ ping_pong_buffer # None =>
         LET self == ping_pong_buffer[1] IN
         /\ get_current_source_buffer(self) # get_current_target_buffer(self)
         /\ {get_current_source_buffer(self), get_current_target_buffer(self)}
                = {self.ping_buffer, self.pong_buffer}
    /\ ping_pong_texture # None =>
         LET self == ping_pong_texture[1] IN
         /\ get_rendered_texture_view(self) # get_target_texture_view(self)
         /\ {get_rendered_texture_view(self), get_target_texture_view(self)}
                = {self.view_ping, self.view_pong}
         /\ pp_device.views[get_rendered_texture_view(self)]
                # pp_device.views[get_target_texture_view(self)]
    /\ \A j, k \in 1..Len(BufferTimeline) :
         BufferTimeline[j].state = BufferTimeline[k].state
             => BufferTimeline[j] = BufferTimeline[k]
    /\ \A j, k \in 1..Len(TextureTimeline) :
         TextureTimeline[j].state = TextureTimeline[k].state
             => TextureTimeline[j] = TextureTimeline[k]

C25_Witness ==
    /\ ping_pong_buffer # None /\ ping_pong_texture # None
    /\ Len(ppb_hist) = 3 /\ Len(ppt_hist) = 1
    /\ ping_pong_buffer[1].state /\ ping_pong_texture[1].state
    /\ get_current_target_buffer(ping_pong_buffer[1]) = ping_pong_buffer[1].pong_buffer
    /\ get_target_texture_view(ping_pong_texture[1]) = ping_pong_texture[1].view_ping

\* the name, ping or pong, of the backing resource an accessor returned
BufferName(self, buffer) == IF buffer = self.ping_buffer THEN "ping" ELSE "pong"
ViewName(self, view) == IF view = self.view_ping THEN "ping" ELSE "pong"

\* a PingPongBuffer and a PingPongTexture exist and hold the same `state`
SameState ==
    /\ ping_pong_buffer # None /\ ping_pong_texture # None
    /\ ping_pong_buffer[1].state = ping_pong_texture[1].state

\* C28 as stated: for the same value of `state`, PingPongBuffer and
\* PingPongTexture select the same-named backing resource as current target,
\* and the same-named one as current source / rendered resource.
C28_SameRoleMapping ==
    SameState =>
        LET b == ping_pong_buffer[1]
            t == ping_pong_texture[1]
        IN  /\ BufferName(b, get_current_target_buffer(b))
                 = ViewName(t, get_target_texture_view(t))
            /\ BufferName(b, get_current_source_buffer(b))
                 = ViewName(t, get_rendered_texture_view(t))

\* C28, amended: for the same value of `state` the two types select
\* opposite-named backing resources: with state false the target of a
\* PingPongBuffer is ping and its source pong, the target of a PingPongTexture
\* is pong and its rendered resource ping; with state true the reverse.
C28_OppositeRoleMapping ==
    SameState =>
        LET b == ping_pong_buffer[1]
            t == ping_pong_texture[1]
        IN  /\ BufferName(b, get_current_target_buffer(b))
                 = (IF b.state THEN "pong" ELSE "ping")
            /\ BufferName(b, get_current_source_buffer(b))
                 = (IF b.state THEN "ping" ELSE "pong")
            /\ ViewName(t, get_target_texture_view(t))
                 = (IF t.state THEN "ping" ELSE "pong")
            /\ ViewName(t, get_rendered_texture_view(t))
                 = (IF t.state THEN "pong" ELSE "ping")
            /\ BufferName(b, get_current_target_buffer(b))
                 # ViewName(t, get_target_texture_view(t))
            /\ BufferName(b, get_current_source_buffer(b))
                 # ViewName(t, get_rendered_texture_view(t))

C28_Witness ==
    /\ SameState
    /\ ping_pong_buffer[1].state
    /\ Len(ppb_hist) = 1 /\ Len(ppt_hist) = 1
    /\ ~ppb_hist[1].state /\ ~ppt_hist[1].state
    /\ ppb_hist[1].target_buffer = ping_pong_buffer[1].ping_buffer
    /\ ppt_hist[1].target_texture_view = ping_pong_texture[1].view_pong

\* the buffers a compiled bind group binds at binding index b
BuffersBoundAt(bind_group, b) ==
    {pp_device.bind_groups[bind_group].entries[i].resource.buffer :
        i \in {j \in 1..Len(pp_device.bind_groups[bind_group].entries) :
                  pp_device.bind_groups[bind_group].entries[j].binding = b}}

\* the read_only flags the layout of a compiled bind group declares at index b
ReadOnlyAt(bind_group, b) ==
    LET entries == pp_device.layouts[pp_device.bind_groups[bind_group].layout].entries IN
    {entries[i].ty.read_only : i \in {j \in 1..Len(entries) : entries[j].binding = b}}

\* C7: in every state of a PingPongBuffer the current ping-pong bind group
\* binds the current source buffer at the read_only storage binding (index 0)
\* and the current target buffer at the writable storage binding (index 1); the
\* current source / target bind groups bind the current source / target buffer.
C7_BindGroupsMatchRoles ==
    ping_pong_buffer # None =>
        LET self == ping_pong_buffer[1]
            both == get_current_ping_pong_bind_group(self)
        IN  /\ ReadOnlyAt(both, 0) = {TRUE}
            /\ BuffersBoundAt(both, 0) = {get_current_source_buffer(self)}
            /\ ReadOnlyAt(both, 1) = {FALSE}
            /\ BuffersBoundAt(both, 1) = {get_current_target_buffer(self)}
            /\ Len(pp_device.bind_groups[both].entries) = 2
            /\ BuffersBoundAt(get_current_source_bind_group(self), 0)
                  = {get_current_source_buffer(self)}
            /\ BuffersBoundAt(get_current_target_bind_group(self), 0)
                  = {get_current_target_buffer(self)}

C7_Witness ==
    /\ ping_pong_buffer # None
    /\ Len(ppb_hist) = 1
    /\ ping_pong_buffer[1].state
    /\ BuffersBoundAt(get_current_ping_pong_bind_group(ping_pong_buffer[1]), 0)
          = {ping_pong_buffer[1].ping_buffer}

----------------------------------------------------------------------------
(* Properties of the uniform buffer.                                        *)

\* C8: an update_content call whose content bytes differ from the shadow
\* issues exactly one queue write of the whole buffer and replaces the shadow;
\* a call whose bytes equal the shadow issues no write and leaves the shadow
\* unchanged.  The shadow is the initial content of new_with_data until the
\* first write, then the bytes of the most recent write.
C8_UpdateContentWritesOnChange ==
    /\ [](uniform_buffer # None =>
             IF ub_queue # <<>>
               THEN uniform_buffer[1].previous_content = ub_queue[Len(ub_queue)].data
               ELSE ub_device[uniform_buffer[1].buffer].desc.mapped_at_creation =>
                       uniform_buffer[1].previous_content
                          = ub_device[uniform_buffer[1].buffer].data)
    /\ [][Len(ub_calls') = Len(ub_calls) + 1 =>
            LET self == uniform_buffer[1]
                content == bytes_of(ub_calls'[Len(ub_calls')])
            IN  IF content # self.previous_content
                  THEN /\ ub_queue' = Append(ub_queue,
                              [buffer |-> self.buffer, offset |-> 0, data |-> content])
                       /\ Len(content) = ub_device[self.buffer].desc.size
                       /\ uniform_buffer'[1].previous_content = content
                  ELSE /\ ub_queue' = ub_queue
                       /\ uniform_buffer' = uniform_buffer]_vars

C8_Witness ==
    /\ Len(ub_calls) = 3
    /\ ub_calls[1] # ub_calls[2]
    /\ ub_calls[2] = ub_calls[3]
    /\ ub_device[1].desc.mapped_at_creation
    /\ uniform_buffer[1].previous_content = bytes_of(ub_calls[3])
    /\ Len(ub_queue) = 1

----------------------------------------------------------------------------
(* Properties of the staging buffer wrapper.                                *)

\* C30: UniformBuffer::new and UniformBuffer::new_with_data (which
\* UniformBufferWrapper::new calls first) complete without panicking whatever
\* the name of the content type, names without a ':' included: name() always
\* yields a label.
C30_ConstructorsNeverPanic == ub_panic = "none"

\* C9: right after StagingBufferWrapper::new(device, size), values_as_slice()
\* has length size and every element is the all-zero value of T.
C9_NewIsZeroedOfSize ==
    sb_last.op = "new" =>
        /\ Len(values_as_slice(staging[1])) = sb_last.arg
        /\ \A i \in 1..Len(values_as_slice(staging[1])) :
               bytes_of(values_as_slice(staging[1])[i]) = ZeroBytes(SizeOfU32)

C9_Witness ==
    /\ sb_last = [op |-> "new", arg |-> 2]
    /\ values_as_slice(staging[1]) = <<0, 0>>

\* C10: after construction and after any sequence of calls, the CPU mirror and
\* the staging buffer agree in length: values.len() * size_of::<T>() is the
\* staging buffer's size in bytes.
C10_MirrorMatchesStagingBuffer ==
    staging # None =>
        Len(staging[1].values) * SizeOfU32 = sb_buffers[staging[1].staging_buffer].size

C10_Witness ==
    /\ staging # None
    /\ sb_last.op = "read_and_unmap_buffer"
    /\ sb_panic = "none"
    /\ Len(staging[1].values) = 2
    /\ staging[1].values[1] # 0

\* C11: the direction of a wrapper is fixed at construction and is never
\* mixed: no read-path call (encode_read, map_buffer, read_and_unmap_buffer)
\* is made on an instance constructed for Write (READ_OR_WRITE = false), and
\* no write-path call (encode_write) on an instance constructed for Read.
C11_DirectionsNotMixed ==
    [][staging # None =>
          /\ ~staging[1].read_or_write =>
                 ~(EncodeRead \/ MapBuffer \/ ReadAndUnmapBuffer)
          /\ staging[1].read_or_write => ~EncodeWrite]_vars

\* the contents of the target of the k-th copy of the encoder right after that
\* copy has executed, in the submission of the encoder from this state
ReceivedByTarget(k) ==
    LET landed == ApplyWrites(sb_buffers, sb_queue)
        after == ApplyCopies(landed, SubSeq(sb_encoder, 1, k))
    IN  SubSeq(after[sb_encoder[k].dst].data, 1, sb_encoder[k].size)

\* C20: over mirror modifications, encode_write calls and submissions on one
\* write wrapper, when the encoder is submitted the target of every copy
\* recorded by encode_write receives the mirror contents as they were at the
\* encode_write call that recorded the copy (the k-th copy of the encoder is
\* recorded by the k-th encode_write, which issued the k-th queue write).
C20_TargetReceivesMirrorAtEncode ==
    [][(staging # None /\ ~staging[1].read_or_write /\ Submit /\ sb_panic' = "none") =>
          \A k \in 1..Len(sb_encoder) :
              /\ ReceivedByTarget(k) = sb_queue[k].data]_vars


\* the first bytes_size bytes of buffer b
FirstBytes(bufs, b) == SubSeq(bufs[b].data, 1, bytes_size(staging[1]))

\* C21: on a read wrapper, a submission whose copies were recorded by
\* encode_read leaves in the staging buffer the first bytes_size bytes of the
\* source as they are when the copy executes; nothing but a submission
\* changes the staging buffer; and once the mapping has completed,
\* read_and_unmap_buffer makes the mirror equal to these bytes and leaves the
\* staging buffer unmapped, in which state a further encode_read can be
\* submitted: the cycle can be repeated.
C21_ReadCycleDeliversSource ==
    [][(staging # None /\ staging[1].read_or_write) =>
          LET b == staging[1].staging_buffer IN
          /\ (Submit /\ sb_panic' = "none") =>
                 /\ \A k \in 1..Len(sb_encoder) :
                        sb_encoder[k] = encode_read_copy(staging[1], GpuBuffer)
                 /\ FirstBytes(sb_buffers', b) = FirstBytes(sb_buffers, GpuBuffer)
                 /\ sb_buffers'[GpuBuffer] = sb_buffers[GpuBuffer]
          /\ ~Submit => sb_buffers'[b].data = sb_buffers[b].data
          /\ (ReadAndUnmapBuffer /\ sb_buffers[b].map_state = "mapped") =>
                 /\ sb_panic' = "none"
                 /\ cast_slice_to_bytes(staging'[1].values) = FirstBytes(sb_buffers, b)
                 /\ Len(staging'[1].values) = Len(staging[1].values)
                 /\ sb_buffers'[b].map_state = "unmapped"
                 /\ SubmitValid(sb_buffers', <<encode_read_copy(staging'[1], GpuBuffer)>>)]_vars

C21_Witness ==
    /\ staging # None
    /\ staging[1].read_or_write
    /\ sb_last.op = "read_and_unmap_buffer"
    /\ sb_panic = "none"
    /\ staging[1].values = <<258, 258>>
    /\ sb_buffers[staging[1].staging_buffer].map_state = "unmapped"
    /\ sb_buffers[GpuBuffer].data = ZeroBytes(buffer_size(MaxLen))

----------------------------------------------------------------------------
(* Properties of the device pool and the surfaces.                          *)

\* the last call was op and has returned Ok
Returned(op) == rh_last.op = op /\ rh_last.result.ok

\* the step drops the future of a suspended call, which returns nothing
FutureDropped ==
    /\ rh_pending # None
    /\ rh_pending' = None
    /\ UNCHANGED <<devices, rh_surfaces, surface_handles, rh_last>>

\* the step is the return of a call of one of these operations: for device and
\* create_render_surface the poll that is Ready, for the methods of a handle
\* the call itself; a poll that is Pending and a dropped future return nothing
Returns(ops) ==
    /\ rh_last'.op \in ops
    /\ IF rh_last'.op \in {"device", "create_render_surface"}
         THEN rh_pending' = None /\ ~FutureDropped
         ELSE rh_pending' = rh_pending

\* C12: create_render_surface called with width = 0 or height = 0 returns
\* SurfaceSizeError(width, height); it makes no surface.configure call, creates
\* no native surface and acquires no device, and the device pool is as before.
C12_ZeroSizeRejected ==
    [][(Returns({"create_render_surface"})
            /\ (rh_last'.width = 0 \/ rh_last'.height = 0)) =>
          /\ rh_last'.result = Err(SurfaceSizeError(rh_last'.width, rh_last'.height))
          /\ rh_last'.configure_calls = 0
          /\ rh_last'.create_surface_calls = 0
          /\ rh_last'.adapter_request = None
          /\ rh_last'.device_request = None
          /\ rh_last'.device_index = None
          /\ UNCHANGED <<devices, rh_surfaces, surface_handles, rh_pending>>]_vars

C12_Witness ==
    /\ rh_last.op = "create_render_surface"
    /\ rh_last.width = 1 /\ rh_last.height = 0
    /\ rh_last.result = Err(SurfaceSizeError(1, 0))
    /\ Len(devices) = 1
    /\ Len(surface_handles) = 1

\* the step is a successful device acquisition (device or create_render_surface)
\* for the surface s2, made right after a successful acquisition for a
\* different surface s1 that returned the index i
SecondAcquisition(s1, i, s2) ==
    /\ rh_last.op \in {"device", "create_render_surface"}
    /\ rh_last.result.ok
    /\ rh_last.surface = Some(s1)
    /\ rh_last.device_index = Some(i)
    /\ Returns({"device", "create_render_surface"})
    /\ rh_last'.result.ok
    /\ rh_last'.surface = Some(s2)
    /\ s1 # s2

\* the adapter reports support for the surface
Supports(adapter, surface) == rh_surfaces'[surface].window \in SupportedWindows(adapter)

\* the second acquisition returns the index i and creates no device handle
ReusesHandle(i) == rh_last'.device_index = Some(i) /\ Len(devices') = Len(devices)

\* C13 as stated: when two different surfaces are supported by the same
\* adapter, acquiring a device for the first and then for the second returns
\* the same device handle index, and the second creates no device handle.
C13_SharedAdapterReusesHandle ==
    [][\A s1, s2 \in 1..Len(rh_surfaces'), i \in 0..(Len(devices) - 1) :
          (/\ SecondAcquisition(s1, i, s2)
           /\ \E a \in Adapters : Supports(a, s1) /\ Supports(a, s2))
              => ReusesHandle(i)]_vars

\* C13 as amended: when the adapter of the handle returned for the first
\* surface supports the second surface and no handle at a lower index does,
\* the acquisition for the second returns the same index and creates no handle.
C13_FirstCompatibleHandleReused ==
    [][\A s1, s2 \in 1..Len(rh_surfaces'), i \in 0..(Len(devices) - 1) :
          (/\ SecondAcquisition(s1, i, s2)
           /\ Supports(devices[i + 1].adapter, s2)
           /\ \A j \in 0..(i - 1) : ~Supports(devices[j + 1].adapter, s2))
              => ReusesHandle(i)]_vars

C13_Witness ==
    /\ Len(devices) = 1
    /\ devices[1].adapter = "dgpu"
    /\ Len(surface_handles) = 2
    /\ surface_handles[1].surface # surface_handles[2].surface
    /\ surface_handles[1].device_handle_id = 0
    /\ surface_handles[2].device_handle_id = 0
    /\ Returned("create_render_surface")
    /\ rh_last.device_index = Some(0)
    /\ rh_last.adapter_request = None

\* the handle of the surface the call of this step was made on
HandleOfCall == CHOOSE h \in 1..Len(surface_handles) :
                    rh_last'.surface = Some(surface_handles[h].surface)

\* the handle's stored configuration holds no zero width or height
NonZeroSize(surface_handle) ==
    surface_handle.config.width > 0 /\ surface_handle.config.height > 0

\* C14: across create_render_surface, resize and set_present_mode calls, every
\* surface.configure call is made with width > 0 and height > 0, and no
\* handle's stored configuration holds a zero width or height: the handle
\* create_render_surface returns holds none and its surface is configured
\* with none, and a resize or set_present_mode call on a handle that holds
\* none configures its surface with none, if at all, and leaves the handle
\* holding none.
C14_NeverConfiguredWithZeroSize ==
    [][/\ (Returns({"create_render_surface"}) /\ rh_last'.configure_calls = 1) =>
              LET created == surface_handles'[Len(surface_handles')]
              IN  /\ Len(surface_handles') = Len(surface_handles) + 1
                  /\ NonZeroSize(created)
                  /\ rh_surfaces'[created.surface].configured[1].config = created.config
       /\ (Returns({"resize", "set_present_mode"})
              /\ NonZeroSize(surface_handles[HandleOfCall])) =>
              LET after == surface_handles'[HandleOfCall]
              IN  /\ NonZeroSize(after)
                  /\ rh_last'.configure_calls = 1 =>
                         rh_surfaces'[after.surface].configured[1].config = after.config
                  /\ rh_last'.configure_calls = 0 =>
                         rh_surfaces'[after.surface] = rh_surfaces[after.surface]
       /\ Returns({"create_render_surface", "resize", "set_present_mode"}) =>
              \A h \in 1..Len(surface_handles) :
                  (rh_last'.op = "create_render_surface" \/ h # HandleOfCall) =>
                      /\ surface_handles'[h] = surface_handles[h]
                      /\ rh_surfaces'[surface_handles[h].surface]
                             = rh_surfaces[surface_handles[h].surface]]_vars

C14_Witness ==
    /\ Returned("resize")
    /\ rh_last.width = 2 /\ rh_last.height = 1
    /\ Len(surface_handles) = 2
    /\ \E h \in 1..Len(surface_handles) :
           /\ rh_last.surface = Some(surface_handles[h].surface)
           /\ surface_handles[h].config.present_mode = "Immediate"
           /\ rh_surfaces[surface_handles[h].surface].configured[1].config.width = 2
           /\ rh_surfaces[surface_handles[h].surface].configured[1].config.height = 1

\* C15: for every SurfaceHandle create_render_surface has returned, at every
\* later point device_handle_id is an index of the device pool and the adapter
\* of devices[device_handle_id] reports support for the handle's surface.
C15_HandleDeviceSupportsSurface ==
    \A h \in 1..Len(surface_handles) :
        LET id == surface_handles[h].device_handle_id
        IN  /\ id \in 0..(Len(devices) - 1)
            /\ rh_surfaces[surface_handles[h].surface].window
                   \in SupportedWindows(devices[id + 1].adapter)

C15_Witness ==
    /\ Len(devices) = 2
    /\ Len(surface_handles) = 2
    /\ surface_handles[1].device_handle_id = 0
    /\ surface_handles[2].device_handle_id = 1
    /\ rh_surfaces[surface_handles[1].surface].window = "w1"
    /\ rh_surfaces[surface_handles[2].surface].window = "w2"
    /\ Returned("set_present_mode")

\* C16: when a device is to be created, a failed adapter request makes the
\* call return the error AdapterRequestError and a failed device request makes
\* it return the error NoCompatibleDevice, a different value; in both cases
\* the device pool is as before the call.
C16_RequestFailuresAreDistinctErrors ==
    [][(Returns({"device", "create_render_surface"})
            /\ rh_last'.adapter_request # None) =>
          /\ ~rh_last'.adapter_request[1].answer.ok =>
                 /\ rh_last'.result = Err(AdapterRequestError)
                 /\ rh_last'.device_request = None
                 /\ devices' = devices
          /\ (rh_last'.device_request # None /\ ~rh_last'.device_request[1].ok) =>
                 /\ rh_last'.result =
                        Err(NoCompatibleDevice(rh_last'.device_request[1].error))
                 /\ rh_last'.result.error.kind # AdapterRequestError.kind
                 /\ devices' = devices]_vars

C16_Witness ==
    /\ rh_last.op = "create_render_surface"
    /\ rh_last.adapter_request # None
    /\ rh_last.adapter_request[1].answer = Ok("dgpu")
    /\ rh_last.result = Err(NoCompatibleDevice("RequestDeviceError"))
    /\ Len(devices) = 1

\* C17: a create_render_surface call that has queried the surface capabilities
\* configures the surface with the first format, in the reported order, that
\* is Rgba8Unorm or Bgra8Unorm; when the list holds neither it returns
\* SurfaceTextureFormatRgbaBgraError and makes no surface.configure call.
C17_FirstRgbaOrBgraFormat ==
    (rh_last.op = "create_render_surface" /\ rh_last.device_index # None) =>
        LET reported == rh_last.formats
            surface == rh_last.surface[1]
            accepted == {i \in 1..Len(reported) :
                            reported[i] = "Rgba8Unorm" \/ reported[i] = "Bgra8Unorm"}
        IN  IF accepted = {}
              THEN /\ rh_last.result = Err(SurfaceTextureFormatRgbaBgraError)
                   /\ rh_last.configure_calls = 0
                   /\ rh_surfaces[surface].configured = None
              ELSE \E i \in accepted :
                     /\ \A j \in 1..(i - 1) : j \notin accepted
                     /\ rh_last.result.ok
                     /\ rh_last.configure_calls = 1
                     /\ rh_surfaces[surface].configured[1].config.format = reported[i]
                     /\ surface_handles[rh_last.result.value].config.format = reported[i]

C17_Witness ==
    /\ Returned("create_render_surface")
    /\ rh_last.formats = <<"Rgba16Float", "Bgra8Unorm", "Rgba8Unorm">>
    /\ surface_handles[rh_last.result.value].config.format = "Bgra8Unorm"
    /\ rh_last.configure_calls = 1

\* C18: SurfaceHandle::resize with width = 0 or height = 0 returns
\* SurfaceSizeError(width, height); the stored configuration of the handle is
\* as before and no surface.configure call is made.
C18_ResizeZeroRejected ==
    [][(Returns({"resize"}) /\ (rh_last'.width = 0 \/ rh_last'.height = 0)) =>
          /\ rh_last'.result = Err(SurfaceSizeError(rh_last'.width, rh_last'.height))
          /\ rh_last'.configure_calls = 0
          /\ UNCHANGED <<surface_handles, rh_surfaces, devices>>]_vars

C18_Witness ==
    /\ rh_last.op = "resize"
    /\ rh_last.result = Err(SurfaceSizeError(0, 2))
    /\ \E h \in 1..Len(surface_handles) :
           /\ rh_last.surface = Some(surface_handles[h].surface)
           /\ surface_handles[h].config.width = 2
           /\ surface_handles[h].config.height = 1

\* the step made exactly one surface.configure call, on the surface of handle
\* h, with the device of the handle and the configuration the handle now holds
ConfiguredOnce(h) ==
    /\ rh_last'.configure_calls = 1
    /\ rh_surfaces' =
         [rh_surfaces EXCEPT ![surface_handles[h].surface].configured =
              Some([device |-> devices[surface_handles[h].device_handle_id + 1].device,
                    config |-> surface_handles'[h].config])]

\* C19: a successful resize changes only the stored width and height, and
\* set_present_mode only the stored present mode; each makes exactly one
\* surface.configure call, with the updated configuration, and leaves the
\* format, the alpha mode, the desired maximum frame latency (2) and
\* device_handle_id as they were.
C19_ReconfigureChangesOnlyItsFields ==
    [][/\ (Returns({"resize"}) /\ rh_last'.result.ok) =>
              /\ surface_handles' =
                   [surface_handles EXCEPT
                      ![HandleOfCall].config.width = rh_last'.width,
                      ![HandleOfCall].config.height = rh_last'.height]
              /\ ConfiguredOnce(HandleOfCall)
       /\ Returns({"set_present_mode"}) =>
              /\ \E present_mode \in PresentModes :
                     surface_handles' =
                       [surface_handles EXCEPT
                          ![HandleOfCall].config.present_mode = present_mode]
              /\ ConfiguredOnce(HandleOfCall)
       /\ Returns({"resize", "set_present_mode"}) =>
              LET before == surface_handles[HandleOfCall]
                  after == surface_handles'[HandleOfCall]
              IN  /\ after.config.format = before.config.format
                  /\ after.config.alpha_mode = before.config.alpha_mode
                  /\ after.config.desired_maximum_frame_latency = 2
                  /\ before.config.desired_maximum_frame_latency = 2
                  /\ after.device_handle_id = before.device_handle_id
                  /\ devices' = devices]_vars

C19_Witness ==
    /\ Returned("set_present_mode")
    /\ rh_last.configure_calls = 1
    /\ \E h \in 1..Len(surface_handles) :
           /\ rh_last.surface = Some(surface_handles[h].surface)
           /\ surface_handles[h].config.present_mode = "Immediate"
           /\ surface_handles[h].config.width = 2
           /\ surface_handles[h].config.format = "Bgra8Unorm"
           /\ surface_handles[h].config.desired_maximum_frame_latency = 2
           /\ rh_surfaces[surface_handles[h].surface].configured[1].config
                  = surface_handles[h].config

\* the call of this step ran new_device with this power preference and these
\* answers of the environment
CreatedDeviceUnder(power_preference, env) ==
    LET d == new_device(devices, rh_last'.surface, power_preference, env)
    IN  /\ Returns({"device", "create_render_surface"})
        /\ rh_last'.adapter_request # None
        /\ rh_last'.adapter_request = d.adapter_request
        /\ rh_last'.device_request = d.device_request
        /\ devices' = d.devices
        /\ IF d.result.ok THEN rh_last'.device_index = Some(d.result.value)
                          ELSE rh_last'.result = d.result

\* C22: when new_device runs and the environment designates an adapter, the
\* outcome is fixed by that adapter and the answer to request_device alone: a
\* handle holding the designated adapter is appended when the device request
\* succeeds, whatever the power preference given and whether the adapter
\* request made with it succeeds or fails.
C22_EnvAdapterTakesPrecedence ==
    [][\A power_preference \in PowerPreferences :
         \A env \in Environments(rh_surfaces', rh_last'.surface) :
           (env.adapter_from_env # None /\ CreatedDeviceUnder(power_preference, env)) =>
               LET d == new_device(devices, rh_last'.surface, power_preference, env)
               IN  IF env.request_device.ok
                     THEN /\ d.result = Ok(Len(devices))
                          /\ Len(devices') = Len(devices) + 1
                          /\ devices'[Len(devices')].adapter = env.adapter_from_env[1]
                     ELSE d.result = Err(NoCompatibleDevice(env.request_device.error))]_vars

\* the indices of the pool whose adapter supports the surface
SupportingIndices(surface) ==
    {i \in 0..(Len(devices) - 1) : Supports(devices[i + 1].adapter, surface)}

\* C23: device(Some(surface)) on a pool with a handle whose adapter supports
\* the surface returns the lowest such index, and device(None) on a non-empty
\* pool returns index 0; either makes no adapter or device request and leaves
\* the pool unchanged.
C23_LookupReturnsLowestCompatibleIndex ==
    [][Returns({"device"}) =>
          /\ (rh_last'.surface # None /\ SupportingIndices(rh_last'.surface[1]) # {}) =>
                 /\ rh_last'.result.ok
                 /\ rh_last'.result.value \in SupportingIndices(rh_last'.surface[1])
                 /\ \A i \in SupportingIndices(rh_last'.surface[1]) :
                        rh_last'.result.value <= i
                 /\ rh_last'.adapter_request = None
                 /\ rh_last'.device_request = None
                 /\ devices' = devices
          /\ (rh_last'.surface = None /\ devices # <<>>) =>
                 /\ rh_last'.result = Ok(0)
                 /\ rh_last'.adapter_request = None
                 /\ rh_last'.device_request = None
                 /\ devices' = devices]_vars

C23_Witness ==
    /\ Returned("device")
    /\ rh_last.surface # None
    /\ Len(devices) = 2
    /\ \A i \in 1..2 : is_surface_supported(rh_surfaces, devices[i].adapter,
                                            rh_last.surface[1])
    /\ rh_last.result.value = 0
    /\ rh_last.adapter_request = None

\* C24: the device pool is append-only and grown lazily: over any step its
\* length does not decrease and the handles at the existing indices stay the
\* same; a handle is added only by a call for which no handle of the pool is
\* compatible (no adapter supporting the surface, or no surface and an empty
\* pool), and then exactly one is appended and its index, the previous
\* length, is the device index of the call.
C24_PoolIsAppendOnly ==
    [][/\ Len(devices') >= Len(devices)
       /\ SubSeq(devices', 1, Len(devices)) = devices
       /\ devices' # devices =>
              /\ Returns({"device", "create_render_surface"})
              /\ IF rh_last'.surface # None
                   THEN SupportingIndices(rh_last'.surface[1]) = {}
                   ELSE devices = <<>>
              /\ Len(devices') = Len(devices) + 1
              /\ rh_last'.device_index = Some(Len(devices))
              /\ rh_last'.device_request = Some(Ok(Unit))]_vars

C24_Witness ==
    /\ Len(devices) = 2
    /\ rh_last.op = "create_render_surface"
    /\ rh_last.device_index = Some(1)
    /\ rh_last.device_request = Some(Ok(Unit))
    /\ devices[1].adapter = "igpu"
    /\ devices[2].adapter = "dgpu"

\* C27 as stated: a create_render_surface call that returns an error leaves
\* the device pool as it was before the call.
C27_FailedCreateLeavesPool ==
    [][(Returns({"create_render_surface"}) /\ ~rh_last'.result.ok) =>
          devices' = devices]_vars

\* C27, amended: a create_render_surface call that returns a size, surface
\* creation, adapter request or device request error leaves the device pool
\* as it was; one that returns the surface format error leaves it as it was
\* when a handle of the pool served the surface, and otherwise with the one
\* handle appended that was created for the surface.
C27_FailedCreateKeepsOrAppendsDevice ==
    [][(Returns({"create_render_surface"}) /\ ~rh_last'.result.ok) =>
          IF rh_last'.result = Err(SurfaceTextureFormatRgbaBgraError)
                /\ rh_last'.device_request # None
            THEN /\ Len(devices') = Len(devices) + 1
                 /\ SubSeq(devices', 1, Len(devices)) = devices
                 /\ rh_last'.device_index = Some(Len(devices))
                 /\ Supports(devices'[Len(devices')].adapter, rh_last'.surface[1])
            ELSE devices' = devices]_vars

C27_Witness ==
    /\ rh_last.op = "create_render_surface"
    /\ rh_last.result = Err(SurfaceTextureFormatRgbaBgraError)
    /\ rh_last.device_request = Some(Ok(Unit))
    /\ rh_last.device_index = Some(0)
    /\ Len(devices) = 1
    /\ surface_handles = <<>>

----------------------------------------------------------------------------
(* Properties of the application loop.                                      *)

\* app_exit before the k-th event was handled
ExitBefore(k) == IF k = 1 THEN FALSE ELSE app_hist[k - 1].exit

\* the redraw requests handled that reached the acquisition of the texture
Redraws ==
    {k \in 1..Len(app_hist) : /\ app_hist[k].event.kind = "RedrawRequested"
                              /\ app_hist[k].acquired # None}

\* C26: on a redraw request, an acquisition that fails with OutOfMemory asks
\* for the exit of the loop; one that fails with another error (Timeout,
\* Outdated, Lost) does not ask for it, renders and presents nothing and does
\* not reconfigure the surface; only a successful acquisition is followed by
\* render and present; and every redraw request that gets past handle_event,
\* the one after a failed acquisition included, attempts the acquisition.
C26_AcquisitionErrorsOnRedraw ==
    /\ \A k \in Redraws :
         LET h == app_hist[k]
             made == Made(h.calls)
         IN  /\ h.acquired[1] = Err("OutOfMemory") => ("elwt.exit" \in made /\ h.exit)
             /\ (~h.acquired[1].ok /\ h.acquired[1] # Err("OutOfMemory")) =>
                    /\ "elwt.exit" \notin made
                    /\ h.exit = ExitBefore(k)
                    /\ made \cap {"app.render", "app.render_gui", "queue.submit",
                                  "output.present", "surface.configure"} = {}
             /\ made \cap {"app.render", "app.render_gui", "queue.submit",
                           "output.present"} # {} => h.acquired[1].ok
             /\ (h.acquired[1].ok /\ h.result.ok) =>
                    {"app.render", "output.present"} \subseteq made
    /\ \A k \in 1..Len(app_hist) :
         (app_hist[k].event.kind = "RedrawRequested"
             /\ "app.handle_event" \in Made(app_hist[k].calls)
             /\ app_hist[k].result # Err("app.handle_event"))
           => k \in Redraws
    /\ \A k \in 1..Len(app_hist) :
         app_hist[k].event.kind # "RedrawRequested" =>
             "output.present" \notin Made(app_hist[k].calls)

C26_Witness ==
    /\ Len(app_hist) = 2
    /\ app_hist[1].event.kind = "RedrawRequested"
    /\ app_hist[1].acquired = Some(Err("Lost"))
    /\ ~app_hist[1].exit
    /\ app_hist[2].event.kind = "RedrawRequested"
    /\ app_hist[2].acquired = Some(Ok("SurfaceTexture"))
    /\ "output.present" \in Made(app_hist[2].calls)
    /\ ~app_exit

\* the events handled that ask for the end of the application
ExitEvents == {k \in 1..Len(app_hist) : is_exit_event(app_hist[k].event)}

\* C29: whenever CloseRequested, or a key-pressed event for Escape, is
\* delivered to run_loop, elwt.exit() is called during the handling of that
\* event, whatever handle_event returns; for the Escape key press on_key is
\* not called.
C29_ExitEventsRequestExit ==
    \A k \in ExitEvents :
        /\ "elwt.exit" \in Made(app_hist[k].calls)
        /\ app_hist[k].exit
        /\ "app.on_key" \notin Made(app_hist[k].calls)

----------------------------------------------------------------------------
(* The specifications.                                                      *)

Init == BBInit /\ PPInit /\ UBInit /\ SBInit /\ RHInit /\ AppInit

\* the binding builders
BBStep ==
    \/ AddRawBinding /\ UNCHANGED <<pp_vars, ub_vars, sb_vars, rh_vars, app_vars>>
    \/ AddBinding /\ UNCHANGED <<pp_vars, ub_vars, sb_vars, rh_vars, app_vars>>
    \/ LayoutCreate /\ UNCHANGED <<pp_vars, ub_vars, sb_vars, rh_vars, app_vars>>
    \/ GroupNew /\ UNCHANGED <<pp_vars, ub_vars, sb_vars, rh_vars, app_vars>>
    \/ Resource /\ UNCHANGED <<pp_vars, ub_vars, sb_vars, rh_vars, app_vars>>
    \/ GroupCreate /\ UNCHANGED <<pp_vars, ub_vars, sb_vars, rh_vars, app_vars>>

Spec == Init /\ [][BBStep]_vars

\* the ping-pong buffer and texture
PPStep ==
    \/ FromBufferDescriptor /\ UNCHANGED <<bb_vars, ub_vars, sb_vars, rh_vars, app_vars>>
    \/ FromBufferInitDescriptor /\ UNCHANGED <<bb_vars, ub_vars, sb_vars, rh_vars, app_vars>>
    \/ SwapState /\ UNCHANGED <<bb_vars, ub_vars, sb_vars, rh_vars, app_vars>>
    \/ TextureFromDescriptor /\ UNCHANGED <<bb_vars, ub_vars, sb_vars, rh_vars, app_vars>>
    \/ TextureCreateBindingGroup /\ UNCHANGED <<bb_vars, ub_vars, sb_vars, rh_vars, app_vars>>
    \/ ToogleState /\ UNCHANGED <<bb_vars, ub_vars, sb_vars, rh_vars, app_vars>>

SpecPingPong == Init /\ [][PPStep]_vars

\* the uniform buffer
UBStep ==
    \/ UniformNew /\ UNCHANGED <<bb_vars, pp_vars, sb_vars, rh_vars, app_vars>>
    \/ UniformNewWithData /\ UNCHANGED <<bb_vars, pp_vars, sb_vars, rh_vars, app_vars>>
    \/ UpdateContent /\ UNCHANGED <<bb_vars, pp_vars, sb_vars, rh_vars, app_vars>>

SpecUniform == Init /\ [][UBStep]_vars

\* the staging buffer wrapper
SBStep ==
    \/ GpuPass /\ UNCHANGED <<bb_vars, pp_vars, ub_vars, rh_vars, app_vars>>
    \/ StagingNew /\ UNCHANGED <<bb_vars, pp_vars, ub_vars, rh_vars, app_vars>>
    \/ StagingNewFromData /\ UNCHANGED <<bb_vars, pp_vars, ub_vars, rh_vars, app_vars>>
    \/ EncodeWrite /\ UNCHANGED <<bb_vars, pp_vars, ub_vars, rh_vars, app_vars>>
    \/ EncodeRead /\ UNCHANGED <<bb_vars, pp_vars, ub_vars, rh_vars, app_vars>>
    \/ Submit /\ UNCHANGED <<bb_vars, pp_vars, ub_vars, rh_vars, app_vars>>
    \/ MapBuffer /\ UNCHANGED <<bb_vars, pp_vars, ub_vars, rh_vars, app_vars>>
    \/ MapCompletes /\ UNCHANGED <<bb_vars, pp_vars, ub_vars, rh_vars, app_vars>>
    \/ ReadAndUnmapBuffer /\ UNCHANGED <<bb_vars, pp_vars, ub_vars, rh_vars, app_vars>>
    \/ Clear /\ UNCHANGED <<bb_vars, pp_vars, ub_vars, rh_vars, app_vars>>
    \/ WriteElement /\ UNCHANGED <<bb_vars, pp_vars, ub_vars, rh_vars, app_vars>>

SpecStaging == Init /\ [][SBStep]_vars

\* the write path of the staging buffer wrapper: mirror modifications,
\* encode_write calls and submissions
SWStep ==
    \/ StagingNew /\ UNCHANGED <<bb_vars, pp_vars, ub_vars, rh_vars, app_vars>>
    \/ StagingNewFromData /\ UNCHANGED <<bb_vars, pp_vars, ub_vars, rh_vars, app_vars>>
    \/ WriteElement /\ UNCHANGED <<bb_vars, pp_vars, ub_vars, rh_vars, app_vars>>
    \/ Clear /\ UNCHANGED <<bb_vars, pp_vars, ub_vars, rh_vars, app_vars>>
    \/ EncodeWrite /\ UNCHANGED <<bb_vars, pp_vars, ub_vars, rh_vars, app_vars>>
    \/ Submit /\ UNCHANGED <<bb_vars, pp_vars, ub_vars, rh_vars, app_vars>>

SpecStagingWrite == Init /\ [][SWStep]_vars

\* the device pool and the surfaces
RHStep ==
    \/ Device /\ UNCHANGED <<bb_vars, pp_vars, ub_vars, sb_vars, app_vars>>
    \/ CreateRenderSurface /\ UNCHANGED <<bb_vars, pp_vars, ub_vars, sb_vars, app_vars>>
    \/ Resize /\ UNCHANGED <<bb_vars, pp_vars, ub_vars, sb_vars, app_vars>>
    \/ SetPresentMode /\ UNCHANGED <<bb_vars, pp_vars, ub_vars, sb_vars, app_vars>>
    \/ Configure /\ UNCHANGED <<bb_vars, pp_vars, ub_vars, sb_vars, app_vars>>
    \/ Poll /\ UNCHANGED <<bb_vars, pp_vars, ub_vars, sb_vars, app_vars>>
    \/ DropFuture /\ UNCHANGED <<bb_vars, pp_vars, ub_vars, sb_vars, app_vars>>

SpecRender == Init /\ [][RHStep]_vars

\* the event handler of the application loop
AppStep == RunLoop /\ UNCHANGED <<bb_vars, pp_vars, ub_vars, sb_vars, rh_vars>>

SpecApp == Init /\ [][AppStep]_vars

=============================================================================
